---- MODULE Spec2Model ----
(***************************************************************************)
(* A model of the range resolution and mutation-request engine of the      *)
(* Google Docs MCP server: src/src/googleDocsApiHelpers.ts and the tool    *)
(* handlers of src/src/tools/FormattingTools.ts, TableTools.ts and         *)
(* StructureTools.ts.                                                      *)
(*                                                                         *)
(* Text is a sequence of one-character strings.  A document is the JSON    *)
(* tree documents.get returns: structural elements with absolute indices.  *)
(* One action models one tool call (or one direct helper call) from its    *)
(* first line to the value it returns or the error it throws; netLog holds *)
(* the remote API calls the call made, in order.                           *)
(***************************************************************************)
EXTENDS Integers, Sequences, FiniteSets, TLC

VARIABLES
    doc,        \* the remote document, as documents.get returns it
    remote,     \* how the remote answers the fetches and the submission of the call
    pc,         \* "idle" | "done"
    call,       \* the tool call that ran: its name and arguments
    result,     \* what the call returned or threw
    netLog,     \* the remote API calls the call made, in order
    trace,      \* values the helpers computed on the way (segments, hits)
    clientManager,  \* the fields of the ClientManager singleton, its promises
    callers,    \* where each caller of ClientManager.initialize() stands
    googleClients,  \* the module variables of clients/googleClients.ts
    clientCalls,    \* where each call of initializeGoogleClient / get...Client stands
    search,     \* the while loop of findTextRange, iteration by iteration
    styling     \* applyParagraphStyle with a text target, await by await

toolVars == <<doc, remote, pc, call, result, netLog, trace>>
clientVars == <<clientManager, callers>>
moduleVars == <<googleClients, clientCalls>>
stepVars == <<search, styling>>
vars == <<toolVars, clientVars, moduleVars, stepVars>>

-----------------------------------------------------------------------------
(* Bounds of the model *)

MaxRunLen == 2      \* longest text of a generated text run / search pattern
MaxInstance == 3    \* largest matchInstance asked for
MaxRows == 2        \* most rows of a generated table
MaxCols == 2        \* most cells of a generated table row
NCallers == 3       \* callers of ClientManager.initialize()
MaxAuthorize == 2   \* most authorize() calls of one run
MaxEdits == 2       \* edits of another caller during one applyParagraphStyle

-----------------------------------------------------------------------------
(* Generic helpers on sequences *)

RECURSIVE SeqsUpTo(_, _)
SeqsUpTo(S, n) ==
    IF n = 0 THEN {<<>>}
    ELSE LET shorter == SeqsUpTo(S, n - 1)
         IN shorter \cup {Append(s, x) : s \in {t \in shorter : Len(t) = n - 1}, x \in S}

NonEmptySeqsUpTo(S, n) == SeqsUpTo(S, n) \ {<<>>}

RECURSIVE Flatten(_)
Flatten(ss) == IF ss = <<>> THEN <<>> ELSE Head(ss) \o Flatten(Tail(ss))

RECURSIVE SumLens(_)
SumLens(ss) == IF ss = <<>> THEN 0 ELSE Len(Head(ss)) + SumLens(Tail(ss))

Min(a, b) == IF a < b THEN a ELSE b

-----------------------------------------------------------------------------
(* The remote service's document tree.                                     *)
(* The service is the sole writer of indices: a text run of n characters   *)
(* takes n indices, an inline object one, and the opening of a table, of a *)
(* row and of a cell one each.  A paragraph ends with a newline, the last  *)
(* character of its last text run.                                         *)

NL == "\n"
NoIndex == -1       \* a startIndex the JSON leaves out (undefined)

TextPiece(t) == [obj |-> FALSE, text |-> t]
ObjPiece == [obj |-> TRUE, text |-> <<>>]

Para(pieces) == [tag |-> "p", pieces |-> pieces, rows |-> <<>>]
Tbl(rows) == [tag |-> "t", pieces |-> <<>>, rows |-> rows]

\* A paragraph holding the one run t followed by its newline.
TextPara(t) == Para(<<TextPiece(t \o <<NL>>)>>)

RECURSIVE LayoutPieces(_, _)
LayoutPieces(pieces, start) ==
    IF pieces = <<>> THEN <<>>
    ELSE LET p == Head(pieces)
             n == IF p.obj THEN 1 ELSE Len(p.text)
             e == [startIndex |-> start, endIndex |-> start + n,
                   hasTextRun |-> ~p.obj, content |-> p.text]
         IN <<e>> \o LayoutPieces(Tail(pieces), start + n)

EndOf(elems, start) == IF elems = <<>> THEN start ELSE elems[Len(elems)].endIndex

LayoutParagraph(pieces, start) ==
    LET es == LayoutPieces(pieces, start)
    IN [tag |-> "paragraph", startIndex |-> start, endIndex |-> EndOf(es, start),
        elements |-> es, tableRows |-> <<>>]

RECURSIVE LayoutBlocks(_, _), LayoutTable(_, _), LayoutRows(_, _), LayoutCells(_, _)
LayoutBlocks(blocks, start) ==
    IF blocks = <<>> THEN <<>>
    ELSE LET b == Head(blocks)
             e == IF b.tag = "p" THEN LayoutParagraph(b.pieces, start)
                  ELSE LayoutTable(b.rows, start)
         IN <<e>> \o LayoutBlocks(Tail(blocks), e.endIndex)

LayoutTable(rows, start) ==
    LET rs == LayoutRows(rows, start + 1)
    IN [tag |-> "table", startIndex |-> start, endIndex |-> EndOf(rs, start + 1),
        elements |-> <<>>, tableRows |-> rs]

LayoutRows(rows, start) ==
    IF rows = <<>> THEN <<>>
    ELSE LET cs == LayoutCells(Head(rows), start + 1)
             r == [startIndex |-> start, endIndex |-> EndOf(cs, start + 1),
                   tableCells |-> cs]
         IN <<r>> \o LayoutRows(Tail(rows), r.endIndex)

LayoutCells(cells, start) ==
    IF cells = <<>> THEN <<>>
    ELSE LET content == LayoutBlocks(Head(cells), start + 1)
             c == [startIndex |-> start, endIndex |-> EndOf(content, start + 1),
                   content |-> content]
         IN <<c>> \o LayoutCells(Tail(cells), c.endIndex)

\* The section break every body opens with: its startIndex (0) is left out.
SectionBreak ==
    [tag |-> "sectionBreak", startIndex |-> NoIndex, endIndex |-> 1,
     elements |-> <<>>, tableRows |-> <<>>]

Document(blocks) ==
    [hasContent |-> TRUE, content |-> <<SectionBreak>> \o LayoutBlocks(blocks, 1)]

\* A response whose body carries no content.
NoContentDoc == [hasContent |-> FALSE, content |-> <<>>]

-----------------------------------------------------------------------------
(* The documents the model fetches *)

Alphabet == {"a", "b"}
Texts == NonEmptySeqsUpTo(Alphabet, MaxRunLen)
ShortTexts == NonEmptySeqsUpTo(Alphabet, 1)

\* One paragraph, one run.
OneRunDocs == {Document(<<TextPara(t)>>) : t \in Texts}

\* One paragraph of two runs, with or without an inline object between them.
TwoRunDocs ==
    {Document(<<Para(<<TextPiece(t1)>>
                     \o (IF gap THEN <<ObjPiece>> ELSE <<>>)
                     \o <<TextPiece(t2 \o <<NL>>)>>)>>) :
        t1 \in Texts, t2 \in ShortTexts, gap \in BOOLEAN}

\* Text before, inside and after a table (one row, two cells; the second
\* cell holds a nested one-cell table).
TextTableDocs ==
    {Document(<<TextPara(t1),
                Tbl(<<  <<  <<TextPara(t2)>>,
                            <<Tbl(<< << <<TextPara(t1)>> >> >>), TextPara(<<>>)>>  >>  >>),
                TextPara(t2)>>) :
        t1 \in ShortTexts, t2 \in ShortTexts}

\* Trees the service would not lay out: two paragraphs whose indices
\* coincide, overlap, or run against the order of the tree.
MalformedStarts == {<<1, 1>>, <<1, 2>>, <<4, 1>>}
MalformedDocs ==
    {[hasContent |-> TRUE,
      content |-> <<SectionBreak,
                    LayoutParagraph(<<TextPiece(t1 \o <<NL>>)>>, s[1]),
                    LayoutParagraph(<<TextPiece(t2 \o <<NL>>)>>, s[2])>>] :
        t1 \in ShortTexts, t2 \in ShortTexts, s \in MalformedStarts}

\* "Hello world. Hello again." in one run starting at index 1.
HelloText ==
    <<"H","e","l","l","o"," ","w","o","r","l","d","."," ",
      "H","e","l","l","o"," ","a","g","a","i","n",".">>
HelloDoc == Document(<<TextPara(HelloText)>>)

\* Tables of every shape up to MaxRows x MaxCols, ragged ones included; the
\* cell at (r, c) holds text when fill says so, and is empty otherwise.
RowWidths == NonEmptySeqsUpTo(1..MaxCols, MaxRows)
Fills == {"empty", "full", "mixed"}
CellText(fill, r, c) ==
    CASE fill = "empty" -> <<>>
      [] fill = "full" -> <<"x">>
      [] OTHER -> IF (r + c) % 2 = 0 THEN <<"x", "y">> ELSE <<>>

TableShape(widths, fill) ==
    [r \in 1..Len(widths) |->
        [c \in 1..widths[r] |-> <<TextPara(CellText(fill, r, c))>>]]

TableDocs ==
    {Document(<<TextPara(<<"a">>), Tbl(TableShape(w, f)), TextPara(<<>>)>>) :
        w \in RowWidths, f \in Fills}

-----------------------------------------------------------------------------
(* Remote API outcomes.  A call of documents.get or documents.batchUpdate  *)
(* either answers or throws the client library's error, which carries the  *)
(* HTTP status in error.code.                                              *)

ApiOk == [code |-> 200, invalidRequests |-> FALSE]
ApiError(code) == [code |-> code, invalidRequests |-> FALSE]
ApiInvalidRequests == [code |-> 400, invalidRequests |-> TRUE]

GetOutcomes == {ApiOk, ApiError(404), ApiError(403), ApiError(500)}
BatchOutcomes == {ApiOk, ApiInvalidRequests, ApiError(404), ApiError(403), ApiError(500)}

GetCall == [api |-> "documents.get", requests |-> <<>>]
BatchCall(requests) == [api |-> "documents.batchUpdate", requests |-> requests]

\* What a helper hands back: a value, or the error it threw, together with
\* the remote calls it made.
Returned(value, net) == [threw |-> FALSE, value |-> value, net |-> net]
MkError(type, msg, cause, code) ==
    [type |-> type, msg |-> msg, cause |-> cause, code |-> code]
Threw(type, msg, net) ==
    [threw |-> TRUE, error |-> MkError(type, msg, "", 0), net |-> net]
\* The client library's own error, thrown on by a helper as it caught it.
ThrewApi(outcome, net) ==
    [threw |-> TRUE, error |-> MkError("ApiError", "api", "", outcome.code), net |-> net]

-----------------------------------------------------------------------------
(* executeBatchUpdate *)

MAX_BATCH_UPDATE_REQUESTS == 50

EmptyResponse == [response |-> "empty"]
ResponseData == [response |-> "data"]

\* The console.warn of a batch above the limit; nothing else depends on it.
WarnsBatchSize(requests) == Len(requests) > MAX_BATCH_UPDATE_REQUESTS

\* executeBatchUpdate as it would be if a batch above the limit were turned
\* away before the remote call.
executeBatchUpdate_rejectsLarge(requests, batchOutcome) ==
    IF Len(requests) = 0 THEN Returned(EmptyResponse, <<>>)
    ELSE IF Len(requests) > MAX_BATCH_UPDATE_REQUESTS
    THEN Threw("UserError", "BatchTooLarge", <<>>)
    ELSE IF batchOutcome = ApiOk THEN Returned(ResponseData, <<BatchCall(requests)>>)
    ELSE Threw("Error", "Google API Error", <<BatchCall(requests)>>)

\* executeBatchUpdate as it would be if a failed submission were tried a
\* second time before the error is thrown.
executeBatchUpdate_retries(requests, batchOutcome) ==
    IF Len(requests) = 0 THEN Returned(EmptyResponse, <<>>)
    ELSE IF batchOutcome = ApiOk THEN Returned(ResponseData, <<BatchCall(requests)>>)
    ELSE Threw("Error", "Google API Error",
               <<BatchCall(requests), BatchCall(requests)>>)

\* executeBatchUpdate as it would be without the early return of an empty
\* request list.
executeBatchUpdate_submitsEmpty(requests, batchOutcome) ==
    IF batchOutcome = ApiOk THEN Returned(ResponseData, <<BatchCall(requests)>>)
    ELSE Threw("Error", "Google API Error", <<BatchCall(requests)>>)

\* executeBatchUpdate as it would be without the translation of the common
\* API errors: every failure is the generic internal error.
executeBatchUpdate_genericOnly(requests, batchOutcome) ==
    IF Len(requests) = 0 THEN Returned(EmptyResponse, <<>>)
    ELSE IF batchOutcome = ApiOk THEN Returned(ResponseData, <<BatchCall(requests)>>)
    ELSE Threw("Error", "Google API Error", <<BatchCall(requests)>>)

executeBatchUpdate(requests, batchOutcome) ==
    IF Len(requests) = 0 THEN Returned(EmptyResponse, <<>>)
    ELSE IF batchOutcome = ApiOk THEN Returned(ResponseData, <<BatchCall(requests)>>)
    ELSE CASE batchOutcome.code = 400 /\ batchOutcome.invalidRequests ->
                Threw("UserError", "Invalid request sent to Google Docs API",
                      <<BatchCall(requests)>>)
           [] batchOutcome.code = 404 ->
                Threw("UserError", "Document not found", <<BatchCall(requests)>>)
           [] batchOutcome.code = 403 ->
                Threw("UserError", "Permission denied for document",
                      <<BatchCall(requests)>>)
           [] OTHER ->
                Threw("Error", "Google API Error", <<BatchCall(requests)>>)

-----------------------------------------------------------------------------
(* findTextRange *)

NullRange == [found |-> FALSE, startIndex |-> -1, endIndex |-> -1]
FoundRange(s, e) == [found |-> TRUE, startIndex |-> s, endIndex |-> e]

\* collectTextFromContent: appends to fullText and to segments together, in
\* the order of the traversal; a table is entered row by row, cell by cell.
RECURSIVE CollectFromElements(_, _), CollectTextFromContent(_, _),
          CollectFromRows(_, _), CollectFromCells(_, _)
CollectFromElements(elements, acc) ==
    IF elements = <<>> THEN acc
    ELSE LET pe == Head(elements)
             acc1 == IF pe.hasTextRun /\ pe.content # <<>>
                        /\ pe.startIndex # NoIndex /\ pe.endIndex # NoIndex
                     THEN [fullText |-> acc.fullText \o pe.content,
                           segments |-> Append(acc.segments,
                                [text |-> pe.content, start |-> pe.startIndex,
                                 end |-> pe.endIndex])]
                     ELSE acc
         IN CollectFromElements(Tail(elements), acc1)

\* The walk over the cells of a row as it would be from right to left.
RECURSIVE CollectFromCells_rightToLeft(_, _)
CollectFromCells_rightToLeft(cells, acc) ==
    IF cells = <<>> THEN acc
    ELSE CollectFromCells_rightToLeft(SubSeq(cells, 1, Len(cells) - 1),
                                      CollectTextFromContent(cells[Len(cells)].content, acc))

CollectFromCells(cells, acc) ==
    IF cells = <<>> THEN acc
    ELSE CollectFromCells(Tail(cells), CollectTextFromContent(Head(cells).content, acc))

CollectFromRows(rows, acc) ==
    IF rows = <<>> THEN acc
    ELSE CollectFromRows(Tail(rows), CollectFromCells(Head(rows).tableCells, acc))

CollectTextFromContent(content, acc) ==
    IF content = <<>> THEN acc
    ELSE LET element == Head(content)
             acc1 == IF element.tag = "paragraph"
                     THEN CollectFromElements(element.elements, acc) ELSE acc
             acc2 == IF element.tag = "table"
                     THEN CollectFromRows(element.tableRows, acc1) ELSE acc1
         IN CollectTextFromContent(Tail(content), acc2)

\* The sort as it would be with the comparator turned round (b.start - a.start).
RECURSIVE InsertByStart_descending(_, _)
InsertByStart_descending(sorted, seg) ==
    IF sorted = <<>> THEN <<seg>>
    ELSE IF sorted[Len(sorted)].start >= seg.start THEN Append(sorted, seg)
    ELSE Append(InsertByStart_descending(SubSeq(sorted, 1, Len(sorted) - 1), seg),
                sorted[Len(sorted)])

\* segments.sort((a, b) => a.start - b.start): a stable sort by start.
RECURSIVE InsertByStart(_, _)
InsertByStart(sorted, seg) ==
    IF sorted = <<>> THEN <<seg>>
    ELSE IF sorted[Len(sorted)].start <= seg.start THEN Append(sorted, seg)
    ELSE Append(InsertByStart(SubSeq(sorted, 1, Len(sorted) - 1), seg),
                sorted[Len(sorted)])

RECURSIVE SortSegmentsFrom(_, _)
SortSegmentsFrom(segments, sorted) ==
    IF segments = <<>> THEN sorted
    ELSE SortSegmentsFrom(Tail(segments), InsertByStart(sorted, Head(segments)))

SortSegments(segments) == SortSegmentsFrom(segments, <<>>)

\* fullText and the sorted segments, as findTextRange holds them when the
\* search starts.
Collected(d) ==
    LET acc == CollectTextFromContent(d.content, [fullText |-> <<>>, segments |-> <<>>])
    IN [fullText |-> acc.fullText, segments |-> SortSegments(acc.segments)]

\* Does pat occur in text at the 0-based offset i?
OccursAt(text, pat, i) ==
    /\ i >= 0
    /\ i + Len(pat) <= Len(text)
    /\ \A k \in 1..Len(pat) : text[i + k] = pat[k]

\* indexOf as it would be if the search never moved on from the start.
IndexOf_fromStart(text, pat, from) ==
    LET hits == {i \in 0..Len(text) : OccursAt(text, pat, i)}
    IN IF hits = {} THEN -1 ELSE CHOOSE i \in hits : \A j \in hits : i <= j

\* String.prototype.indexOf(pat, from): the least offset >= from where pat
\* occurs, -1 when there is none.
IndexOf(text, pat, from) ==
    LET hits == {i \in from..Len(text) : OccursAt(text, pat, i)}
    IN IF hits = {} THEN -1 ELSE CHOOSE i \in hits : \A j \in hits : i <= j

\* The mapping loop as it would be if a hit that ends exactly where a
\* segment ends were not mapped to the end of that segment.
RECURSIVE MapLoop_strictEnd(_, _, _, _, _)
MapLoop_strictEnd(segments, targetStart, targetEnd, currentPos, startIndex) ==
    IF segments = <<>> THEN [startIndex |-> startIndex, endIndex |-> -1]
    ELSE LET seg == Head(segments)
             segStart == currentPos
             segEnd == segStart + Len(seg.text)
             startIndex1 ==
                 IF startIndex = -1 /\ targetStart >= segStart /\ targetStart < segEnd
                 THEN seg.start + (targetStart - segStart)
                 ELSE startIndex
         IN IF targetEnd >= segStart /\ targetEnd < segEnd
            THEN [startIndex |-> startIndex1,
                  endIndex |-> seg.start + (targetEnd - segStart)]
            ELSE MapLoop_strictEnd(Tail(segments), targetStart, targetEnd, segEnd,
                                   startIndex1)

\* The mapping loop as it would be if the end were taken where the hit starts.
RECURSIVE MapLoop_endAtStart(_, _, _, _, _)
MapLoop_endAtStart(segments, targetStart, targetEnd, currentPos, startIndex) ==
    IF segments = <<>> THEN [startIndex |-> startIndex, endIndex |-> -1]
    ELSE LET seg == Head(segments)
             segStart == currentPos
             segEnd == segStart + Len(seg.text)
             startIndex1 ==
                 IF startIndex = -1 /\ targetStart >= segStart /\ targetStart < segEnd
                 THEN seg.start + (targetStart - segStart)
                 ELSE startIndex
         IN IF targetEnd > segStart /\ targetEnd <= segEnd
            THEN [startIndex |-> startIndex1,
                  endIndex |-> seg.start + (targetStart - segStart)]
            ELSE MapLoop_endAtStart(Tail(segments), targetStart, targetEnd, segEnd,
                                    startIndex1)

\* The mapping loop as it would be if it gave up on a hit whose start is
\* mapped when the next segment does not begin where this one ends.
RECURSIVE MapLoop_failsOnGap(_, _, _, _, _)
MapLoop_failsOnGap(segments, targetStart, targetEnd, currentPos, startIndex) ==
    IF segments = <<>> THEN [startIndex |-> startIndex, endIndex |-> -1]
    ELSE LET seg == Head(segments)
             segStart == currentPos
             segEnd == segStart + Len(seg.text)
             startIndex1 ==
                 IF startIndex = -1 /\ targetStart >= segStart /\ targetStart < segEnd
                 THEN seg.start + (targetStart - segStart)
                 ELSE startIndex
         IN IF targetEnd > segStart /\ targetEnd <= segEnd
            THEN [startIndex |-> startIndex1,
                  endIndex |-> seg.start + (targetEnd - segStart)]
            ELSE IF startIndex1 # -1 /\ Len(segments) > 1 /\ segments[2].start > seg.end
            THEN [startIndex |-> startIndex1, endIndex |-> -1]
            ELSE MapLoop_failsOnGap(Tail(segments), targetStart, targetEnd, segEnd,
                                    startIndex1)

\* The for loop over the segments that maps [targetStart, targetEnd) of the
\* full text to document indices; -1 is what the loop leaves unmapped.
RECURSIVE MapLoop(_, _, _, _, _)
MapLoop(segments, targetStart, targetEnd, currentPos, startIndex) ==
    IF segments = <<>> THEN [startIndex |-> startIndex, endIndex |-> -1]
    ELSE LET seg == Head(segments)
             segStart == currentPos
             segEnd == segStart + Len(seg.text)
             startIndex1 ==
                 IF startIndex = -1 /\ targetStart >= segStart /\ targetStart < segEnd
                 THEN seg.start + (targetStart - segStart)
                 ELSE startIndex
         IN IF targetEnd > segStart /\ targetEnd <= segEnd
            THEN [startIndex |-> startIndex1,
                  endIndex |-> seg.start + (targetEnd - segStart)]
            ELSE MapLoop(Tail(segments), targetStart, targetEnd, segEnd, startIndex1)

\* The mapping as it would be with the reconstructed position counted from 1.
MapHit_countsFromOne(segments, targetStart, targetEnd) ==
    MapLoop(segments, targetStart, targetEnd, 1, -1)

MapHit(segments, targetStart, targetEnd) ==
    MapLoop(segments, targetStart, targetEnd, 0, -1)

\* The while loop as it would be if the search went on at the end of the
\* hit it counted, not one character after its start.
RECURSIVE SearchLoop_pastHit(_, _, _, _, _, _, _, _)
SearchLoop_pastHit(fullText, segments, textToFind, instance, foundCount, searchStartIndex, counted, failed) ==
    IF ~(foundCount < instance)
    THEN [range |-> NullRange, counted |-> counted, failed |-> failed]
    ELSE LET currentIndex == IndexOf(fullText, textToFind, searchStartIndex)
         IN IF currentIndex = -1
            THEN [range |-> NullRange, counted |-> counted, failed |-> failed]
            ELSE IF foundCount + 1 = instance
            THEN LET m == MapHit(segments, currentIndex, currentIndex + Len(textToFind))
                 IN IF m.startIndex = -1 \/ m.endIndex = -1
                    THEN SearchLoop_pastHit(fullText, segments, textToFind, instance,
                                            foundCount, currentIndex + 1,
                                            counted, Append(failed, currentIndex))
                    ELSE [range |-> FoundRange(m.startIndex, m.endIndex),
                          counted |-> Append(counted, currentIndex),
                          failed |-> failed]
            ELSE SearchLoop_pastHit(fullText, segments, textToFind, instance,
                                    foundCount + 1, currentIndex + Len(textToFind),
                                    Append(counted, currentIndex), failed)

\* The while loop: the range of the instance-th hit that maps, the offsets
\* of the hits it counted, and the hits whose mapping failed.
RECURSIVE SearchLoop(_, _, _, _, _, _, _, _)
SearchLoop(fullText, segments, textToFind, instance, foundCount, searchStartIndex, counted, failed) ==
    IF ~(foundCount < instance)
    THEN [range |-> NullRange, counted |-> counted, failed |-> failed]
    ELSE LET currentIndex == IndexOf(fullText, textToFind, searchStartIndex)
         IN IF currentIndex = -1
            THEN [range |-> NullRange, counted |-> counted, failed |-> failed]
            ELSE IF foundCount + 1 = instance
            THEN LET m == MapHit(segments, currentIndex, currentIndex + Len(textToFind))
                 IN IF m.startIndex = -1 \/ m.endIndex = -1
                    THEN SearchLoop(fullText, segments, textToFind, instance,
                                    foundCount, currentIndex + 1,
                                    counted, Append(failed, currentIndex))
                    ELSE [range |-> FoundRange(m.startIndex, m.endIndex),
                          counted |-> Append(counted, currentIndex),
                          failed |-> failed]
            ELSE SearchLoop(fullText, segments, textToFind, instance,
                            foundCount + 1, currentIndex + 1,
                            Append(counted, currentIndex), failed)

\* The search of findTextRange on a fetched document.
SearchDocument(d, textToFind, instance) ==
    LET col == Collected(d)
    IN SearchLoop(col.fullText, col.segments, textToFind, instance, 0, 0, <<>>, <<>>)

\* findTextRange as it would be if it refused segments that, as collected,
\* are not strictly increasing and non-overlapping.
FindTextRange_checksOrder(d, getOutcome, textToFind, instance) ==
    IF getOutcome # ApiOk
    THEN CASE getOutcome.code = 404 ->
                Threw("UserError", "Document not found while searching text", <<GetCall>>)
           [] getOutcome.code = 403 ->
                Threw("UserError", "Permission denied while searching text", <<GetCall>>)
           [] OTHER ->
                Threw("Error", "Failed to retrieve doc for text searching", <<GetCall>>)
    ELSE IF ~d.hasContent THEN Returned(NullRange, <<GetCall>>)
    ELSE IF \E i \in 1..(Len(Collected(d).segments) - 1) :
                CollectTextFromContent(d.content, [fullText |-> <<>>, segments |-> <<>>]).segments[i].end
                  > CollectTextFromContent(d.content, [fullText |-> <<>>, segments |-> <<>>]).segments[i + 1].start
    THEN Threw("Error", "Failed to retrieve doc for text searching", <<GetCall>>)
    ELSE Returned(SearchDocument(d, textToFind, instance).range, <<GetCall>>)

\* findTextRange(docs, documentId, textToFind, instance) against the remote
\* document d, whose fetch ends as getOutcome says.
FindTextRange(d, getOutcome, textToFind, instance) ==
    IF getOutcome # ApiOk
    THEN CASE getOutcome.code = 404 ->
                Threw("UserError", "Document not found while searching text", <<GetCall>>)
           [] getOutcome.code = 403 ->
                Threw("UserError", "Permission denied while searching text", <<GetCall>>)
           [] OTHER ->
                Threw("Error", "Failed to retrieve doc for text searching", <<GetCall>>)
    ELSE IF ~d.hasContent THEN Returned(NullRange, <<GetCall>>)
    ELSE Returned(SearchDocument(d, textToFind, instance).range, <<GetCall>>)

-----------------------------------------------------------------------------
(* getParagraphRange *)

RECURSIVE FindParagraphInContent(_, _), FindParagraphInRows(_, _),
          FindParagraphInCells(_, _)
\* The search as it would be if an element also held the index at its end.
FindParagraphInContent_endInclusive(content, indexWithin) ==
    IF content = <<>> THEN NullRange
    ELSE LET element == Head(content)
             inside == /\ element.startIndex # NoIndex /\ element.endIndex # NoIndex
                       /\ indexWithin >= element.startIndex
                       /\ indexWithin <= element.endIndex
             inCells == IF inside /\ element.tag = "table"
                        THEN FindParagraphInRows(element.tableRows, indexWithin)
                        ELSE NullRange
         IN IF inside /\ element.tag = "paragraph"
            THEN FoundRange(element.startIndex, element.endIndex)
            ELSE IF inCells.found THEN inCells
            ELSE FindParagraphInContent(Tail(content), indexWithin)

FindParagraphInContent(content, indexWithin) ==
    IF content = <<>> THEN NullRange
    ELSE LET element == Head(content)
             inside == /\ element.startIndex # NoIndex /\ element.endIndex # NoIndex
                       /\ indexWithin >= element.startIndex
                       /\ indexWithin < element.endIndex
             inCells == IF inside /\ element.tag = "table"
                        THEN FindParagraphInRows(element.tableRows, indexWithin)
                        ELSE NullRange
         IN IF inside /\ element.tag = "paragraph"
            THEN FoundRange(element.startIndex, element.endIndex)
            ELSE IF inCells.found THEN inCells
            ELSE FindParagraphInContent(Tail(content), indexWithin)

FindParagraphInRows(rows, indexWithin) ==
    IF rows = <<>> THEN NullRange
    ELSE LET r == FindParagraphInCells(Head(rows).tableCells, indexWithin)
         IN IF r.found THEN r ELSE FindParagraphInRows(Tail(rows), indexWithin)

FindParagraphInCells(cells, indexWithin) ==
    IF cells = <<>> THEN NullRange
    ELSE LET r == FindParagraphInContent(Head(cells).content, indexWithin)
         IN IF r.found THEN r ELSE FindParagraphInCells(Tail(cells), indexWithin)

\* getParagraphRange(docs, documentId, indexWithin) against the remote
\* document d, whose fetch ends as getOutcome says.
GetParagraphRange(d, getOutcome, indexWithin) ==
    IF getOutcome # ApiOk
    THEN CASE getOutcome.code = 404 ->
                Threw("UserError", "Document not found while finding paragraph",
                      <<GetCall>>)
           [] getOutcome.code = 403 ->
                Threw("UserError", "Permission denied while accessing doc", <<GetCall>>)
           [] OTHER -> Threw("Error", "Failed to find paragraph", <<GetCall>>)
    ELSE IF ~d.hasContent THEN Returned(NullRange, <<GetCall>>)
    ELSE Returned(FindParagraphInContent(d.content, indexWithin), <<GetCall>>)

-----------------------------------------------------------------------------
(* Table helpers *)

\* The first top-level table whose startIndex is tableStartIndex: its
\* position in content, 0 when there is none.
TableAt(content, tableStartIndex) ==
    LET hits == {i \in 1..Len(content) :
                    content[i].tag = "table" /\ content[i].startIndex = tableStartIndex}
    IN IF hits = {} THEN 0 ELSE CHOOSE i \in hits : \A j \in hits : i <= j

IsWhitespace(c) == c \in {" ", NL}

\* String.prototype.trim
RECURSIVE TrimStart(_), TrimEnd(_)
TrimStart(t) == IF t # <<>> /\ IsWhitespace(Head(t)) THEN TrimStart(Tail(t)) ELSE t
TrimEnd(t) ==
    IF t # <<>> /\ IsWhitespace(t[Len(t)]) THEN TrimEnd(SubSeq(t, 1, Len(t) - 1)) ELSE t
Trim(t) == TrimEnd(TrimStart(t))

\* The text of the text runs of the paragraphs directly in a cell.
RECURSIVE RunsText(_), CellTextOf(_)
RunsText(elements) ==
    IF elements = <<>> THEN <<>>
    ELSE (IF Head(elements).hasTextRun THEN Head(elements).content ELSE <<>>)
         \o RunsText(Tail(elements))
CellTextOf(content) ==
    IF content = <<>> THEN <<>>
    ELSE (IF Head(content).tag = "paragraph" THEN RunsText(Head(content).elements)
          ELSE <<>>)
         \o CellTextOf(Tail(content))

NullTable == [isNull |-> TRUE]

\* getTableStructure: rows is the number of rows, columns the number of
\* cells of the first row, cells[r][c] the cells as the rows hold them.
GetTableStructure(d, getOutcome, tableStartIndex) ==
    IF getOutcome # ApiOk THEN ThrewApi(getOutcome, <<GetCall>>)
    ELSE IF ~d.hasContent THEN Returned(NullTable, <<GetCall>>)
    ELSE LET i == TableAt(d.content, tableStartIndex)
         IN IF i = 0 THEN Returned(NullTable, <<GetCall>>)
            ELSE LET element == d.content[i]
                     tableRows == element.tableRows
                 IN Returned(
                      [isNull |-> FALSE,
                       startIndex |-> element.startIndex,
                       endIndex |-> element.endIndex,
                       rows |-> Len(tableRows),
                       columns |-> IF tableRows = <<>> THEN 0
                                   ELSE Len(tableRows[1].tableCells),
                       cells |-> [r \in 1..Len(tableRows) |->
                                    [c \in 1..Len(tableRows[r].tableCells) |->
                                       [content |-> Trim(CellTextOf(
                                                      tableRows[r].tableCells[c].content)),
                                        startIndex |-> tableRows[r].tableCells[c].startIndex,
                                        endIndex |-> tableRows[r].tableCells[c].endIndex]]]],
                      <<GetCall>>)

\* getTableCellRange as it would be if it handed back the cell's own end.
GetTableCellRange_keepsEnd(d, getOutcome, tableStartIndex, rowIndex, columnIndex) ==
    IF getOutcome # ApiOk THEN ThrewApi(getOutcome, <<GetCall>>)
    ELSE IF ~d.hasContent THEN Returned(NullRange, <<GetCall>>)
    ELSE LET i == TableAt(d.content, tableStartIndex)
         IN IF i = 0 THEN Returned(NullRange, <<GetCall>>)
            ELSE LET tableRows == d.content[i].tableRows
                 IN IF rowIndex >= Len(tableRows)
                    THEN Threw("UserError", "Row index out of bounds", <<GetCall>>)
                    ELSE LET cells == tableRows[rowIndex + 1].tableCells
                         IN IF columnIndex >= Len(cells)
                            THEN Threw("UserError", "Column index out of bounds",
                                       <<GetCall>>)
                            ELSE LET cell == cells[columnIndex + 1]
                                 IN Returned(FoundRange(cell.startIndex, cell.endIndex),
                                             <<GetCall>>)

\* getTableCellRange as it would be if it clamped the column to the row.
GetTableCellRange_clamps(d, getOutcome, tableStartIndex, rowIndex, columnIndex) ==
    IF getOutcome # ApiOk THEN ThrewApi(getOutcome, <<GetCall>>)
    ELSE IF ~d.hasContent THEN Returned(NullRange, <<GetCall>>)
    ELSE LET i == TableAt(d.content, tableStartIndex)
         IN IF i = 0 THEN Returned(NullRange, <<GetCall>>)
            ELSE LET tableRows == d.content[i].tableRows
                 IN IF rowIndex >= Len(tableRows)
                    THEN Threw("UserError", "Row index out of bounds", <<GetCall>>)
                    ELSE LET cells == tableRows[rowIndex + 1].tableCells
                             cell == cells[Min(columnIndex + 1, Len(cells))]
                         IN Returned(FoundRange(cell.startIndex, cell.endIndex - 1),
                                     <<GetCall>>)

\* getTableCellRange: rowIndex and columnIndex are 0-based.
GetTableCellRange(d, getOutcome, tableStartIndex, rowIndex, columnIndex) ==
    IF getOutcome # ApiOk THEN ThrewApi(getOutcome, <<GetCall>>)
    ELSE IF ~d.hasContent THEN Returned(NullRange, <<GetCall>>)
    ELSE LET i == TableAt(d.content, tableStartIndex)
         IN IF i = 0 THEN Returned(NullRange, <<GetCall>>)
            ELSE LET tableRows == d.content[i].tableRows
                 IN IF rowIndex >= Len(tableRows)
                    THEN Threw("UserError", "Row index out of bounds", <<GetCall>>)
                    ELSE LET cells == tableRows[rowIndex + 1].tableCells
                         IN IF columnIndex >= Len(cells)
                            THEN Threw("UserError", "Column index out of bounds",
                                       <<GetCall>>)
                            ELSE LET cell == cells[columnIndex + 1]
                                 IN Returned(FoundRange(cell.startIndex,
                                                        cell.endIndex - 1),
                                             <<GetCall>>)

DeleteContentRange(startIndex, endIndex) ==
    [kind |-> "deleteContentRange",
     range |-> [startIndex |-> startIndex, endIndex |-> endIndex]]
InsertTextRequest(index, text) ==
    [kind |-> "insertText", location |-> [index |-> index], text |-> text]

\* The requests as they would be without the test of the content range.
CellUpdateRequests_alwaysDeletes(cellRange, newContent) ==
    LET contentStart == cellRange.startIndex + 1
        contentEnd == cellRange.endIndex
    IN <<DeleteContentRange(contentStart, contentEnd)>>
       \o (IF newContent # <<>> THEN <<InsertTextRequest(contentStart, newContent)>>
           ELSE <<>>)

\* The requests as they would be if the insertion were pushed first.
CellUpdateRequests_insertFirst(cellRange, newContent) ==
    LET contentStart == cellRange.startIndex + 1
        contentEnd == cellRange.endIndex
    IN (IF newContent # <<>> THEN <<InsertTextRequest(contentStart, newContent)>>
        ELSE <<>>)
       \o (IF contentEnd > contentStart
           THEN <<DeleteContentRange(contentStart, contentEnd)>> ELSE <<>>)

\* The requests updateTableCellContent builds from the cell range.
CellUpdateRequests(cellRange, newContent) ==
    LET contentStart == cellRange.startIndex + 1
        contentEnd == cellRange.endIndex
    IN (IF contentEnd > contentStart
        THEN <<DeleteContentRange(contentStart, contentEnd)>> ELSE <<>>)
       \o (IF newContent # <<>> THEN <<InsertTextRequest(contentStart, newContent)>>
           ELSE <<>>)

\* Run rest only when first returned; the remote calls of both add up.
\* The same with the remote calls of rest put before those of first.
AndThen_restFirst(first, rest) ==
    IF first.threw THEN first ELSE [rest EXCEPT !.net = rest.net \o first.net]

AndThen(first, rest) ==
    IF first.threw THEN first ELSE [rest EXCEPT !.net = first.net \o rest.net]

UpdateTableCellContent(d, getOutcome, batchOutcome, tableStartIndex, rowIndex, columnIndex, newContent) ==
    LET got == GetTableCellRange(d, getOutcome, tableStartIndex, rowIndex, columnIndex)
    IN IF got.threw THEN got
       ELSE IF ~got.value.found
       THEN Threw("UserError", "Could not find cell", got.net)
       ELSE AndThen(got, executeBatchUpdate(CellUpdateRequests(got.value, newContent),
                                            batchOutcome))

-----------------------------------------------------------------------------
(* hexToRgbColor (types.ts).  A channel is kept as its 8-bit value n, which *)
(* stands for the number n / 255 the code returns.                          *)

HexDigitValue(c) ==
    CASE c = "0" -> 0 [] c = "1" -> 1 [] c = "2" -> 2 [] c = "3" -> 3
      [] c = "4" -> 4 [] c = "5" -> 5 [] c = "6" -> 6 [] c = "7" -> 7
      [] c = "8" -> 8 [] c = "9" -> 9
      [] c \in {"a", "A"} -> 10 [] c \in {"b", "B"} -> 11 [] c \in {"c", "C"} -> 12
      [] c \in {"d", "D"} -> 13 [] c \in {"e", "E"} -> 14 [] c \in {"f", "F"} -> 15
      [] OTHER -> -1

IsHexDigit(c) == HexDigitValue(c) >= 0

\* hexColorRegex: /^#?([0-9A-Fa-f]{3}|[0-9A-Fa-f]{6})$/
validateHexColor(color) ==
    LET body == IF color # <<>> /\ Head(color) = "#" THEN Tail(color) ELSE color
    IN /\ Len(body) \in {3, 6}
       /\ \A i \in 1..Len(body) : IsHexDigit(body[i])

\* parseInt(s, 16) on a string of six characters none of which is a blank
\* or a sign: the value of the longest prefix of hexadecimal digits, NaN
\* (-1 here) when the first character is no digit.
RECURSIVE ParseHexPrefix(_, _, _)
ParseHexPrefix(s, acc, seen) ==
    IF s = <<>> \/ ~IsHexDigit(Head(s)) THEN (IF seen THEN acc ELSE -1)
    ELSE ParseHexPrefix(Tail(s), acc * 16 + HexDigitValue(Head(s)), TRUE)

NullColor == [isNull |-> TRUE, red |-> 0, green |-> 0, blue |-> 0]

hexToRgbColor(hex) ==
    IF hex = <<>> THEN NullColor
    ELSE LET stripped == IF Head(hex) = "#" THEN Tail(hex) ELSE hex
             hexClean == IF Len(stripped) = 3
                         THEN <<stripped[1], stripped[1], stripped[2], stripped[2],
                                stripped[3], stripped[3]>>
                         ELSE stripped
         IN IF Len(hexClean) # 6 THEN NullColor
            ELSE LET bigint == ParseHexPrefix(hexClean, 0, FALSE)
                 IN IF bigint = -1 THEN NullColor
                    ELSE [isNull |-> FALSE,
                          red |-> (bigint \div 65536) % 256,
                          green |-> (bigint \div 256) % 256,
                          blue |-> bigint % 256]

-----------------------------------------------------------------------------
(* Style request builders.  A style intent is a function from the names of *)
(* the properties that are set (!== undefined) to their values.            *)

EmptyStyle == [p \in {} |-> 0]
Has(style, p) == p \in DOMAIN style

\* The same without the test of presence.
Put_always(acc, present, field, value) ==
    IF acc.threw THEN acc
    ELSE [acc EXCEPT !.style = acc.style @@ (field :> value),
                     !.fields = Append(acc.fields, field)]

\* One "if (style.p !== undefined) { target[field] = value; fields.push(field) }".
Put(acc, present, field, value) ==
    IF acc.threw \/ ~present THEN acc
    ELSE [acc EXCEPT !.style = acc.style @@ (field :> value),
                     !.fields = Append(acc.fields, field)]

\* The same for a colour: hexToRgbColor, and a UserError when it is null.
PutColor(acc, present, field, hex, msg) ==
    IF acc.threw \/ ~present THEN acc
    ELSE LET rgbColor == hexToRgbColor(hex)
         IN IF rgbColor.isNull THEN [acc EXCEPT !.threw = TRUE, !.msg = msg]
            ELSE Put(acc, TRUE, field,
                     [color |-> [rgbColor |-> [red |-> rgbColor.red,
                                               green |-> rgbColor.green,
                                               blue |-> rgbColor.blue]]])

Val(style, p) == IF Has(style, p) THEN style[p] ELSE 0

BuilderStart == [threw |-> FALSE, msg |-> "", style |-> EmptyStyle, fields |-> <<>>]

\* What a builder hands back: null, a request with its field list, or the
\* UserError it threw.
BuilderResult(acc, kind, startIndex, endIndex) ==
    IF acc.threw THEN [threw |-> TRUE, msg |-> acc.msg, isNull |-> FALSE]
    ELSE IF acc.fields = <<>> THEN [threw |-> FALSE, msg |-> "", isNull |-> TRUE]
    ELSE [threw |-> FALSE, msg |-> "", isNull |-> FALSE,
          request |-> [kind |-> kind,
                       range |-> [startIndex |-> startIndex, endIndex |-> endIndex],
                       style |-> acc.style,
                       fields |-> acc.fields],
          fields |-> acc.fields]

TextStyleFields(style) ==
    LET a1 == Put(BuilderStart, Has(style, "bold"), "bold", Val(style, "bold"))
        a2 == Put(a1, Has(style, "italic"), "italic", Val(style, "italic"))
        a3 == Put(a2, Has(style, "underline"), "underline", Val(style, "underline"))
        a4 == Put(a3, Has(style, "strikethrough"), "strikethrough",
                  Val(style, "strikethrough"))
        a5 == Put(a4, Has(style, "fontSize"), "fontSize",
                  [magnitude |-> Val(style, "fontSize"), unit |-> "PT"])
        a6 == Put(a5, Has(style, "fontFamily"), "weightedFontFamily",
                  [fontFamily |-> Val(style, "fontFamily")])
        a7 == PutColor(a6, Has(style, "foregroundColor"), "foregroundColor",
                       Val(style, "foregroundColor"),
                       "Invalid foreground hex color format")
        a8 == PutColor(a7, Has(style, "backgroundColor"), "backgroundColor",
                       Val(style, "backgroundColor"),
                       "Invalid background hex color format")
    IN Put(a8, Has(style, "linkUrl"), "link", [url |-> Val(style, "linkUrl")])

buildUpdateTextStyleRequest(startIndex, endIndex, style) ==
    BuilderResult(TextStyleFields(style), "updateTextStyle", startIndex, endIndex)

ParagraphStyleFields(style) ==
    LET a1 == Put(BuilderStart, Has(style, "alignment"), "alignment",
                  Val(style, "alignment"))
        a2 == Put(a1, Has(style, "indentStart"), "indentStart",
                  [magnitude |-> Val(style, "indentStart"), unit |-> "PT"])
        a3 == Put(a2, Has(style, "indentEnd"), "indentEnd",
                  [magnitude |-> Val(style, "indentEnd"), unit |-> "PT"])
        a4 == Put(a3, Has(style, "spaceAbove"), "spaceAbove",
                  [magnitude |-> Val(style, "spaceAbove"), unit |-> "PT"])
        a5 == Put(a4, Has(style, "spaceBelow"), "spaceBelow",
                  [magnitude |-> Val(style, "spaceBelow"), unit |-> "PT"])
        a6 == Put(a5, Has(style, "namedStyleType"), "namedStyleType",
                  Val(style, "namedStyleType"))
    IN Put(a6, Has(style, "keepWithNext"), "keepWithNext", Val(style, "keepWithNext"))

buildUpdateParagraphStyleRequest(startIndex, endIndex, style) ==
    BuilderResult(ParagraphStyleFields(style), "updateParagraphStyle",
                  startIndex, endIndex)

-----------------------------------------------------------------------------
(* Helpers that compile to one request, and findTables *)

\* insertText
insertText(batchOutcome, text, index) ==
    IF text = <<>> THEN Returned(EmptyResponse, <<>>)
    ELSE executeBatchUpdate(<<InsertTextRequest(index, text)>>, batchOutcome)

\* The location as it would be with the indices held inside a table of one
\* cell.
TableCellLocation_clamped(tableStartIndex, rowIndex, columnIndex) ==
    [tableStartLocation |-> [index |-> tableStartIndex],
     rowIndex |-> Min(rowIndex, 0), columnIndex |-> Min(columnIndex, 0)]

TableCellLocation(tableStartIndex, rowIndex, columnIndex) ==
    [tableStartLocation |-> [index |-> tableStartIndex],
     rowIndex |-> rowIndex, columnIndex |-> columnIndex]

insertTableRow(batchOutcome, tableStartIndex, insertBelow, referenceRowIndex) ==
    executeBatchUpdate(
        <<[kind |-> "insertTableRow",
           tableCellLocation |-> TableCellLocation(tableStartIndex, referenceRowIndex, 0),
           insertBelow |-> insertBelow]>>,
        batchOutcome)

deleteTableRow(batchOutcome, tableStartIndex, rowIndex) ==
    executeBatchUpdate(
        <<[kind |-> "deleteTableRow",
           tableCellLocation |-> TableCellLocation(tableStartIndex, rowIndex, 0)]>>,
        batchOutcome)

insertTableColumn(batchOutcome, tableStartIndex, insertRight, referenceColumnIndex) ==
    executeBatchUpdate(
        <<[kind |-> "insertTableColumn",
           tableCellLocation |->
               TableCellLocation(tableStartIndex, 0, referenceColumnIndex),
           insertRight |-> insertRight]>>,
        batchOutcome)

deleteTableColumn(batchOutcome, tableStartIndex, columnIndex) ==
    executeBatchUpdate(
        <<[kind |-> "deleteTableColumn",
           tableCellLocation |-> TableCellLocation(tableStartIndex, 0, columnIndex)]>>,
        batchOutcome)

\* findTables: the top-level tables of the body with their row count and
\* the cell count of their first row; the client's error is thrown on as is.
TableInfos(tables) ==
    [i \in 1..Len(tables) |->
        [startIndex |-> tables[i].startIndex,
         endIndex |-> tables[i].endIndex,
         rows |-> Len(tables[i].tableRows),
         columns |-> IF tables[i].tableRows = <<>> THEN 0
                     ELSE Len(tables[i].tableRows[1].tableCells)]]

findTables(d, getOutcome) ==
    IF getOutcome # ApiOk THEN ThrewApi(getOutcome, <<GetCall>>)
    ELSE IF ~d.hasContent THEN Returned(<<>>, <<GetCall>>)
    ELSE Returned(TableInfos(SelectSeq(d.content,
                      LAMBDA element : /\ element.tag = "table"
                                       /\ element.startIndex # NoIndex
                                       /\ element.endIndex # NoIndex)),
                  <<GetCall>>)

\* applyTableCellStyle.  "if (style.backgroundColor)" and "if
\* (style.borderTop)" test truthiness: an empty colour string counts as
\* absent, a border object never does.
Truthy(style, p) == Has(style, p) /\ style[p] # <<>>

Padding(style, p) == [magnitude |-> Val(style, p), unit |-> "PT"]

\* One "if (style.border) { tableCellStyle.border = buildBorder(style.border) ... }".
buildBorder(acc, field, borderSpec, rgbColor) ==
    IF rgbColor.isNull
    THEN [acc EXCEPT !.threw = TRUE, !.msg = "Invalid border hex color format"]
    ELSE Put(acc, TRUE, field,
             [color |-> [color |-> [rgbColor |-> [red |-> rgbColor.red,
                                                  green |-> rgbColor.green,
                                                  blue |-> rgbColor.blue]]],
              width |-> [magnitude |-> borderSpec.width, unit |-> "PT"],
              dashStyle |-> borderSpec.dashStyle])

PutBorder(acc, style, field) ==
    IF acc.threw \/ ~Has(style, field) THEN acc
    ELSE buildBorder(acc, field, style[field], hexToRgbColor(style[field].color))

TableCellStyleFields(style) ==
    LET a1 == PutColor(BuilderStart, Truthy(style, "backgroundColor"),
                       "backgroundColor", Val(style, "backgroundColor"),
                       "Invalid background hex color format")
        a2 == Put(a1, Has(style, "paddingTop"), "paddingTop",
                  Padding(style, "paddingTop"))
        a3 == Put(a2, Has(style, "paddingBottom"), "paddingBottom",
                  Padding(style, "paddingBottom"))
        a4 == Put(a3, Has(style, "paddingLeft"), "paddingLeft",
                  Padding(style, "paddingLeft"))
        a5 == Put(a4, Has(style, "paddingRight"), "paddingRight",
                  Padding(style, "paddingRight"))
        a6 == PutBorder(a5, style, "borderTop")
        a7 == PutBorder(a6, style, "borderBottom")
        a8 == PutBorder(a7, style, "borderLeft")
    IN PutBorder(a8, style, "borderRight")

\* The end of applyTableCellStyle, from the test of fieldsToUpdate on.
SubmitTableCellStyle(acc, batchOutcome, tableStartIndex, rowIndex, columnIndex) ==
    IF acc.threw THEN Threw("UserError", acc.msg, <<>>)
    ELSE IF acc.fields = <<>>
    THEN Threw("UserError", "No valid table cell styling options were provided", <<>>)
    ELSE executeBatchUpdate(
            <<[kind |-> "updateTableCellStyle",
               tableRange |->
                   [tableCellLocation |->
                        TableCellLocation(tableStartIndex, rowIndex, columnIndex),
                    rowSpan |-> 1, columnSpan |-> 1],
               style |-> acc.style,
               fields |-> acc.fields]>>,
            batchOutcome)

applyTableCellStyle(batchOutcome, tableStartIndex, rowIndex, columnIndex, style) ==
    SubmitTableCellStyle(TableCellStyleFields(style), batchOutcome, tableStartIndex,
                         rowIndex, columnIndex)

-----------------------------------------------------------------------------
(* insertInlineImage.  An image URL is kept as what new URL(imageUrl)      *)
(* yields: whether it parses, its scheme and its host.  The parser writes  *)
(* an IPv4 host as four decimal octets and an IPv6 host in brackets, its   *)
(* first group in lower-case hexadecimal without leading zeros, so a       *)
(* pattern anchored at the start of the hostname is a test of the first    *)
(* octet or group.                                                         *)

NameHost(name) == [kind |-> "name", name |-> name, o |-> <<0, 0, 0, 0>>,
                   h1 |-> 0, isLoopback |-> FALSE]
V4Host(a, b, c, d) == [kind |-> "ipv4", name |-> "", o |-> <<a, b, c, d>>,
                       h1 |-> 0, isLoopback |-> FALSE]
\* The IPv6 address h1::1, and ::1 itself.
V6Host(h1) == [kind |-> "ipv6", name |-> "", o |-> <<0, 0, 0, 0>>,
               h1 |-> h1, isLoopback |-> FALSE]
V6Loopback == [kind |-> "ipv6", name |-> "", o |-> <<0, 0, 0, 0>>,
               h1 |-> 0, isLoopback |-> TRUE]

Url(scheme, host) == [valid |-> TRUE, scheme |-> scheme, host |-> host]
UnparsableUrl == [valid |-> FALSE, scheme |-> "", host |-> NameHost("")]

PrivateRanges ==
    <<"localhost", "127.", "10.", "172.16-31.", "192.168.", "169.254.", "0.0.0.0",
      "[::1]", "[fe80:", "[fc00:">>

\* pattern.test(hostname) for the patterns of privateRanges.
PatternTest(pattern, host) ==
    CASE pattern = "localhost" -> host.kind = "name" /\ host.name = "localhost"
      [] pattern = "127." -> host.kind = "ipv4" /\ host.o[1] = 127
      [] pattern = "10." -> host.kind = "ipv4" /\ host.o[1] = 10
      [] pattern = "172.16-31." ->
            host.kind = "ipv4" /\ host.o[1] = 172 /\ host.o[2] \in 16..31
      [] pattern = "192.168." -> host.kind = "ipv4" /\ host.o[1] = 192 /\ host.o[2] = 168
      [] pattern = "169.254." -> host.kind = "ipv4" /\ host.o[1] = 169 /\ host.o[2] = 254
      [] pattern = "0.0.0.0" -> host.kind = "ipv4" /\ host.o = <<0, 0, 0, 0>>
      [] pattern = "[::1]" -> host.kind = "ipv6" /\ host.isLoopback
      [] pattern = "[fe80:" -> host.kind = "ipv6" /\ ~host.isLoopback /\ host.h1 = 65152
      [] pattern = "[fc00:" -> host.kind = "ipv6" /\ ~host.isLoopback /\ host.h1 = 64512
      [] OTHER -> FALSE

HostBlocked(host) == \E i \in DOMAIN PrivateRanges : PatternTest(PrivateRanges[i], host)

NoSize == [width |-> 0, height |-> 0]

InsertInlineImageRequest(url, index, size) ==
    [kind |-> "insertInlineImage", location |-> [index |-> index], uri |-> url,
     hasObjectSize |-> (size.width # 0 /\ size.height # 0),
     objectSize |-> IF size.width # 0 /\ size.height # 0 THEN size ELSE NoSize]

\* insertInlineImage(docs, documentId, imageUrl, index, width, height); a
\* width or height of 0 stands for one that was not given.
InsertInlineImage(batchOutcome, url, index, size) ==
    IF ~url.valid THEN Threw("UserError", "Invalid image URL format", <<>>)
    ELSE IF url.scheme \notin {"http", "https"}
    THEN Threw("UserError", "Only HTTP and HTTPS URLs are allowed", <<>>)
    ELSE IF HostBlocked(url.host)
    THEN Threw("UserError", "Access to private/internal IP addresses is not allowed",
               <<>>)
    ELSE executeBatchUpdate(<<InsertInlineImageRequest(url, index, size)>>, batchOutcome)

-----------------------------------------------------------------------------
(* Tool handlers.  The parameters schema of a tool is checked before its   *)
(* execute function runs; execute wraps its body in try/catch and throws   *)
(* on a UserError (and, in most tools, a NotImplementedError) as it is and *)
(* everything else as a new UserError "Failed to ...".                     *)

RejectedBySchema == Threw("ValidationError", "Invalid parameters", <<>>)

\* The catch of a tool as it would be if it threw on whatever it caught.
ToolCatch_passesAll(r, passed, failMsg) == r

ToolCatch(r, passed, failMsg) ==
    IF r.threw /\ r.error.type \notin passed
    THEN [r EXCEPT !.error = MkError("UserError", failMsg, r.error.msg, 0)]
    ELSE r

RangeTarget(s, e) ==
    [kind |-> "range", startIndex |-> s, endIndex |-> e,
     textToFind |-> <<>>, matchInstance |-> 0, indexWithinParagraph |-> 0]
TextTarget(t, k) ==
    [kind |-> "text", startIndex |-> 0, endIndex |-> 0,
     textToFind |-> t, matchInstance |-> k, indexWithinParagraph |-> 0]
IndexTarget(i) ==
    [kind |-> "index", startIndex |-> 0, endIndex |-> 0,
     textToFind |-> <<>>, matchInstance |-> 0, indexWithinParagraph |-> i]

\* The schemas as they would be without the lower bound of startIndex.
TargetValid_startUnbounded(target) ==
    CASE target.kind = "range" ->
            target.endIndex >= 1 /\ target.endIndex > target.startIndex
      [] target.kind = "text" -> Len(target.textToFind) >= 1 /\ target.matchInstance >= 1
      [] OTHER -> target.indexWithinParagraph >= 1

\* RangeParameters, TextFindParameter and the index-within-paragraph object.
TargetValid(target) ==
    CASE target.kind = "range" ->
            target.startIndex >= 1 /\ target.endIndex >= 1
            /\ target.endIndex > target.startIndex
      [] target.kind = "text" -> Len(target.textToFind) >= 1 /\ target.matchInstance >= 1
      [] OTHER -> target.indexWithinParagraph >= 1

\* TextStyleParameters as it would be without the refinements of the colours.
TextStyleValid_coloursUnchecked(style) ==
    /\ DOMAIN style # {}
    /\ Has(style, "fontSize") => style["fontSize"] >= 1

\* TextStyleParameters with its refinements: the colours are valid hex
\* colours, the font size is at least 1, one option at least is given.
TextStyleValid(style) ==
    /\ DOMAIN style # {}
    /\ Has(style, "foregroundColor") => validateHexColor(style["foregroundColor"])
    /\ Has(style, "backgroundColor") => validateHexColor(style["backgroundColor"])
    /\ Has(style, "fontSize") => style["fontSize"] >= 1

ParagraphStyleValid(style) == DOMAIN style # {}

FoundText(text, startIndex, endIndex, fields) ==
    [text |-> text, startIndex |-> startIndex, endIndex |-> endIndex, fields |-> fields]

\* The tail the three formatting tools share: check the range, build the
\* request, submit it.
StyleAndSubmit(builder, batchOutcome, startIndex, endIndex, rangeMsg, nullMsg, okMsg) ==
    IF endIndex <= startIndex THEN Threw("UserError", rangeMsg, <<>>)
    ELSE IF builder.threw THEN Threw("UserError", builder.msg, <<>>)
    ELSE IF builder.isNull
    THEN Returned(FoundText(nullMsg, startIndex, endIndex, <<>>), <<>>)
    ELSE AndThen(executeBatchUpdate(<<builder.request>>, batchOutcome),
                 Returned(FoundText(okMsg, startIndex, endIndex, builder.fields), <<>>))

\* applyTextStyle
ApplyTextStyleBody(d, getOutcome, batchOutcome, target, style) ==
    IF target.kind = "text"
    THEN LET range == FindTextRange(d, getOutcome, target.textToFind,
                                    target.matchInstance)
         IN IF range.threw THEN range
            ELSE IF ~range.value.found
            THEN Threw("UserError", "Could not find instance of text", range.net)
            ELSE AndThen(range,
                    StyleAndSubmit(
                        buildUpdateTextStyleRequest(range.value.startIndex,
                                                    range.value.endIndex, style),
                        batchOutcome, range.value.startIndex, range.value.endIndex,
                        "End index must be greater than start index for styling",
                        "No valid text styling options were provided",
                        "Successfully applied text style"))
    ELSE StyleAndSubmit(
            buildUpdateTextStyleRequest(target.startIndex, target.endIndex, style),
            batchOutcome, target.startIndex, target.endIndex,
            "End index must be greater than start index for styling",
            "No valid text styling options were provided",
            "Successfully applied text style")

ApplyTextStyleTool(d, getOutcome, batchOutcome, target, style) ==
    IF ~(target.kind \in {"range", "text"} /\ TargetValid(target) /\ TextStyleValid(style))
    THEN RejectedBySchema
    ELSE ToolCatch(ApplyTextStyleBody(d, getOutcome, batchOutcome, target, style),
                   {"UserError", "NotImplementedError"}, "Failed to apply text style")

\* formatMatchingText
FormatMatchingTextBody(d, getOutcome, batchOutcome, textToFind, matchInstance, style) ==
    LET range == FindTextRange(d, getOutcome, textToFind, matchInstance)
    IN IF range.threw THEN range
       ELSE IF ~range.value.found
       THEN Threw("UserError", "Could not find instance of text", range.net)
       ELSE LET builder == buildUpdateTextStyleRequest(range.value.startIndex,
                                                       range.value.endIndex, style)
            IN AndThen(range,
                  IF builder.threw THEN Threw("UserError", builder.msg, <<>>)
                  ELSE IF builder.isNull
                  THEN Returned(FoundText("No valid text styling options were provided",
                                          range.value.startIndex, range.value.endIndex,
                                          <<>>), <<>>)
                  ELSE AndThen(executeBatchUpdate(<<builder.request>>, batchOutcome),
                               Returned(FoundText("Successfully applied formatting",
                                                  range.value.startIndex,
                                                  range.value.endIndex, builder.fields),
                                        <<>>)))

FormatMatchingTextTool(d, getOutcome, batchOutcome, textToFind, matchInstance, style) ==
    IF ~(Len(textToFind) >= 1 /\ matchInstance >= 1 /\ TextStyleValid(style))
    THEN RejectedBySchema
    ELSE ToolCatch(FormatMatchingTextBody(d, getOutcome, batchOutcome, textToFind,
                                          matchInstance, style),
                   {"UserError"}, "Failed to format text")

\* applyParagraphStyle: a text target is resolved by two helpers, each
\* with a fetch of its own (getOutcome, then getOutcome2).
ParagraphTargetRange(d, getOutcome, getOutcome2, target) ==
    CASE target.kind = "text" ->
            LET textRange == FindTextRange(d, getOutcome, target.textToFind,
                                           IF target.matchInstance = 0 THEN 1
                                           ELSE target.matchInstance)
            IN IF textRange.threw THEN textRange
               ELSE IF ~textRange.value.found
               THEN Threw("UserError", "Could not find text in the document",
                          textRange.net)
               ELSE LET paragraphRange ==
                            AndThen(textRange,
                                    GetParagraphRange(d, getOutcome2,
                                                      textRange.value.startIndex))
                    IN IF paragraphRange.threw THEN paragraphRange
                       ELSE IF ~paragraphRange.value.found
                       THEN Threw("UserError",
                                  "Found the text but could not determine the paragraph boundaries",
                                  paragraphRange.net)
                       ELSE paragraphRange
      [] target.kind = "index" ->
            LET paragraphRange == GetParagraphRange(d, getOutcome,
                                                    target.indexWithinParagraph)
            IN IF paragraphRange.threw THEN paragraphRange
               ELSE IF ~paragraphRange.value.found
               THEN Threw("UserError", "Could not find paragraph containing index",
                          paragraphRange.net)
               ELSE paragraphRange
      [] OTHER -> Returned(FoundRange(target.startIndex, target.endIndex), <<>>)

ApplyParagraphStyleBody(d, getOutcome, getOutcome2, batchOutcome, target, style) ==
    LET range == ParagraphTargetRange(d, getOutcome, getOutcome2, target)
    IN IF range.threw THEN range
       ELSE AndThen(range,
               StyleAndSubmit(
                  buildUpdateParagraphStyleRequest(range.value.startIndex,
                                                   range.value.endIndex, style),
                  batchOutcome, range.value.startIndex, range.value.endIndex,
                  "Invalid paragraph range",
                  "No valid paragraph styling options were provided",
                  "Successfully applied paragraph styles"))

ApplyParagraphStyleTool(d, getOutcome, getOutcome2, batchOutcome, target, style) ==
    IF ~(TargetValid(target) /\ ParagraphStyleValid(style)) THEN RejectedBySchema
    ELSE ToolCatch(ApplyParagraphStyleBody(d, getOutcome, getOutcome2, batchOutcome,
                                           target, style),
                   {"UserError", "NotImplementedError"},
                   "Failed to apply paragraph style")

\* getTableCell: the cell is read from table.cells[rowIndex][columnIndex];
\* reading a field of a cell the row does not hold is a TypeError.
GetTableCellBody(d, getOutcome, tableIndex, rowIndex, columnIndex) ==
    LET table == GetTableStructure(d, getOutcome, tableIndex)
    IN IF table.threw THEN table
       ELSE IF table.value.isNull THEN Threw("UserError", "No table found", table.net)
       ELSE IF rowIndex >= table.value.rows
       THEN Threw("UserError", "Row index out of bounds", table.net)
       ELSE IF columnIndex >= table.value.columns
       THEN Threw("UserError", "Column index out of bounds", table.net)
       ELSE IF columnIndex + 1 \notin DOMAIN table.value.cells[rowIndex + 1]
       THEN Threw("TypeError", "Cannot read properties of undefined", table.net)
       ELSE Returned(table.value.cells[rowIndex + 1][columnIndex + 1], table.net)

GetTableCellTool(d, getOutcome, tableIndex, rowIndex, columnIndex) ==
    IF ~(tableIndex >= 1 /\ rowIndex >= 0 /\ columnIndex >= 0) THEN RejectedBySchema
    ELSE ToolCatch(GetTableCellBody(d, getOutcome, tableIndex, rowIndex, columnIndex),
                   {"UserError"}, "Failed to get table cell")

\* updateTableCell
UpdateTableCellTool(d, getOutcome, batchOutcome, tableIndex, rowIndex, columnIndex, newContent) ==
    IF ~(tableIndex >= 1 /\ rowIndex >= 0 /\ columnIndex >= 0) THEN RejectedBySchema
    ELSE ToolCatch(
            AndThen(UpdateTableCellContent(d, getOutcome, batchOutcome, tableIndex,
                                           rowIndex, columnIndex, newContent),
                    Returned([text |-> "Successfully updated cell"], <<>>)),
            {"UserError"}, "Failed to update table cell")

\* insertImageFromUrl: z.string().url() accepts what parses as a URL.
InsertImageFromUrlTool(batchOutcome, url, index, size) ==
    IF ~(url.valid /\ index >= 1) THEN RejectedBySchema
    ELSE ToolCatch(
            AndThen(InsertInlineImage(batchOutcome, url, index, size),
                    Returned([text |-> "Successfully inserted image from URL"], <<>>)),
            {"UserError"}, "Failed to insert image")

-----------------------------------------------------------------------------
(* The tools of DocumentTools.ts and the other tools of TableTools.ts *)

\* insertText
InsertTextTool(batchOutcome, textToInsert, index) ==
    IF ~(Len(textToInsert) >= 1 /\ index >= 1) THEN RejectedBySchema
    ELSE ToolCatch(
            AndThen(insertText(batchOutcome, textToInsert, index),
                    Returned([text |-> "Successfully inserted text"], <<>>)),
            {"UserError"}, "Failed to insert text")

\* deleteRange: its schema is RangeParameters written out again; the test
\* of the range is repeated before the try block.
DeleteRangeTool(batchOutcome, startIndex, endIndex) ==
    IF ~(startIndex >= 1 /\ endIndex >= 1 /\ endIndex > startIndex)
    THEN RejectedBySchema
    ELSE IF endIndex <= startIndex
    THEN Threw("UserError", "End index must be greater than start index for deletion",
               <<>>)
    ELSE ToolCatch(
            AndThen(executeBatchUpdate(<<DeleteContentRange(startIndex, endIndex)>>,
                                       batchOutcome),
                    Returned([text |-> "Successfully deleted content in range"], <<>>)),
            {"UserError"}, "Failed to delete range")

\* listTables
ListTablesText(tables) ==
    IF tables.threw THEN tables
    ELSE IF tables.value = <<>>
    THEN Returned([text |-> "No tables found in this document"], tables.net)
    ELSE Returned([text |-> "Found tables", tables |-> tables.value], tables.net)

ListTablesTool(d, getOutcome) ==
    ToolCatch(ListTablesText(findTables(d, getOutcome)),
              {"UserError"}, "Failed to list tables")

\* TableCellStyleParameters with the refinement of the tool: the colours
\* are valid hex colours, paddings and widths are not negative, one option
\* at least is given.
BorderProps == {"borderTop", "borderBottom", "borderLeft", "borderRight"}
PaddingProps == {"paddingTop", "paddingBottom", "paddingLeft", "paddingRight"}
TableCellStyleValid(style) ==
    /\ DOMAIN style # {}
    /\ Has(style, "backgroundColor") => validateHexColor(style["backgroundColor"])
    /\ \A p \in PaddingProps : Has(style, p) => style[p] >= 0
    /\ \A p \in BorderProps :
          Has(style, p) => (style[p].width >= 0 /\ validateHexColor(style[p].color))

\* applyTableCellStyle
ApplyTableCellStyleTool(batchOutcome, tableIndex, rowIndex, columnIndex, style) ==
    IF ~(tableIndex >= 1 /\ rowIndex >= 0 /\ columnIndex >= 0
         /\ TableCellStyleValid(style))
    THEN RejectedBySchema
    ELSE ToolCatch(
            AndThen(applyTableCellStyle(batchOutcome, tableIndex, rowIndex,
                                        columnIndex, style),
                    Returned([text |-> "Successfully applied styling to cell"], <<>>)),
            {"UserError"}, "Failed to apply table cell style")

\* insertTableRow, deleteTableRow, insertTableColumn, deleteTableColumn
InsertTableRowTool(batchOutcome, tableIndex, referenceRowIndex, insertBelow) ==
    IF ~(tableIndex >= 1 /\ referenceRowIndex >= 0) THEN RejectedBySchema
    ELSE ToolCatch(
            AndThen(insertTableRow(batchOutcome, tableIndex, insertBelow,
                                   referenceRowIndex),
                    Returned([text |-> "Successfully inserted new row"], <<>>)),
            {"UserError"}, "Failed to insert table row")

DeleteTableRowTool(batchOutcome, tableIndex, rowIndex) ==
    IF ~(tableIndex >= 1 /\ rowIndex >= 0) THEN RejectedBySchema
    ELSE ToolCatch(
            AndThen(deleteTableRow(batchOutcome, tableIndex, rowIndex),
                    Returned([text |-> "Successfully deleted row"], <<>>)),
            {"UserError"}, "Failed to delete table row")

InsertTableColumnTool(batchOutcome, tableIndex, referenceColumnIndex, insertRight) ==
    IF ~(tableIndex >= 1 /\ referenceColumnIndex >= 0) THEN RejectedBySchema
    ELSE ToolCatch(
            AndThen(insertTableColumn(batchOutcome, tableIndex, insertRight,
                                      referenceColumnIndex),
                    Returned([text |-> "Successfully inserted new column"], <<>>)),
            {"UserError"}, "Failed to insert table column")

DeleteTableColumnTool(batchOutcome, tableIndex, columnIndex) ==
    IF ~(tableIndex >= 1 /\ columnIndex >= 0) THEN RejectedBySchema
    ELSE ToolCatch(
            AndThen(deleteTableColumn(batchOutcome, tableIndex, columnIndex),
                    Returned([text |-> "Successfully deleted column"], <<>>)),
            {"UserError"}, "Failed to delete table column")

-----------------------------------------------------------------------------
(* utils/errorHandling.ts *)

\* validateRange
validateRange(startIndex, endIndex) ==
    IF endIndex <= startIndex
    THEN Threw("UserError", "Invalid range: end index must be greater than start index",
               <<>>)
    ELSE IF startIndex < 1
    THEN Threw("UserError", "Invalid range: start index must be at least 1", <<>>)
    ELSE Returned([text |-> ""], <<>>)

\* handleToolError: a UserError and a NotImplementedError are thrown on as
\* they are, everything else is thrown as a new UserError whose message
\* depends on error.code.
handleToolError(error) ==
    IF error.type \in {"UserError", "NotImplementedError"}
    THEN [threw |-> TRUE, error |-> error, net |-> <<>>]
    ELSE CASE error.code = 404 -> Threw("UserError", "Resource not found", <<>>)
           [] error.code = 403 -> Threw("UserError", "Permission denied", <<>>)
           [] error.code = 400 -> Threw("UserError", "Invalid request", <<>>)
           [] error.code = 429 -> Threw("UserError", "Rate limit exceeded", <<>>)
           [] error.code \in {500, 502, 503} ->
                Threw("UserError", "Google API service error", <<>>)
           [] OTHER ->
                [threw |-> TRUE,
                 error |-> MkError("UserError", "Failed to", error.msg, 0),
                 net |-> <<>>]

-----------------------------------------------------------------------------
(* What the model records of the helpers' work *)

NoTrace ==
    [op |-> "none", fullText |-> <<>>, segments |-> <<>>, counted |-> <<>>,
     failed |-> <<>>, range |-> NullRange, paragraph |-> NullRange,
     paragraphAsked |-> FALSE]

\* The search of findTextRange, when the fetch answered with content.
FindTrace(d, getOutcome, textToFind, instance) ==
    IF getOutcome = ApiOk /\ d.hasContent
    THEN LET col == Collected(d)
             found == SearchDocument(d, textToFind, instance)
         IN [NoTrace EXCEPT !.op = "findTextRange", !.fullText = col.fullText,
                            !.segments = col.segments, !.counted = found.counted,
                            !.failed = found.failed, !.range = found.range]
    ELSE NoTrace

\* The paragraph lookup of getParagraphRange, when its fetch answered.
WithParagraph(t, d, getOutcome, indexWithin) ==
    IF getOutcome = ApiOk
    THEN [t EXCEPT !.paragraphAsked = TRUE,
                   !.paragraph = GetParagraphRange(d, getOutcome, indexWithin).value]
    ELSE t

ParagraphTrace(d, getOutcome, getOutcome2, target) ==
    CASE target.kind = "text" ->
            LET t == FindTrace(d, getOutcome, target.textToFind, target.matchInstance)
            IN IF t.range.found
               THEN WithParagraph(t, d, getOutcome2, t.range.startIndex) ELSE t
      [] target.kind = "index" ->
            WithParagraph(NoTrace, d, getOutcome, target.indexWithinParagraph)
      [] OTHER -> NoTrace

-----------------------------------------------------------------------------
(* utils/clientManager.ts.  initialize() is an async function: it runs to  *)
(* its first await in one step, and goes on in a later step once the       *)
(* promise it awaits has settled.  A promise is named by the number of the *)
(* authorize() call behind it, and so is the client set it resolves to.    *)

Callers == 1..NCallers
Promises == 1..MaxAuthorize

Null == 0

NewClientManager ==
    [clients |-> Null, initializationPromise |-> Null,
     promise |-> [p \in Promises |-> "none"],
     authorizeCalls |-> 0, resetWhilePending |-> FALSE]

\* A caller that is not inside initialize().
Outside == [at |-> "outside", promise |-> Null, got |-> Null]
AwaitingOwn(p) == [at |-> "awaitingOwn", promise |-> p, got |-> Null]
AwaitingShared(p) == [at |-> "awaitingShared", promise |-> p, got |-> Null]
Received(clients) == [at |-> "returned", promise |-> Null, got |-> clients]
Rejected == [at |-> "threw", promise |-> Null, got |-> Null]

\* initialize() as it would be without the test of initializationPromise.
InitializeStep_noPromiseCache(cm, p) ==
    IF cm.clients # Null THEN [cm |-> cm, caller |-> Received(cm.clients)]
    ELSE [cm |-> [cm EXCEPT !.initializationPromise = p,
                            !.promise[p] = "pending",
                            !.authorizeCalls = p],
          caller |-> AwaitingOwn(p)]

\* initialize() up to its first await, p being the next promise to make.
InitializeStep(cm, p) ==
    IF cm.clients # Null THEN [cm |-> cm, caller |-> Received(cm.clients)]
    ELSE IF cm.initializationPromise # Null
    THEN [cm |-> cm, caller |-> AwaitingShared(cm.initializationPromise)]
    ELSE [cm |-> [cm EXCEPT !.initializationPromise = p,
                            !.promise[p] = "pending",
                            !.authorizeCalls = p],
          caller |-> AwaitingOwn(p)]

\* A caller enters initialize().
Initialize(c) ==
    /\ callers[c].at = "outside"
    /\ clientManager.authorizeCalls < MaxAuthorize
    /\ LET step == InitializeStep(clientManager, clientManager.authorizeCalls + 1)
       IN /\ clientManager' = step.cm
          /\ callers' = [callers EXCEPT ![c] = step.caller]
    /\ UNCHANGED <<toolVars, moduleVars, stepVars>>

\* A call of initialize() when no further authorize() call is modelled: it
\* is taken only where it starts none.
InitializeCached(c) ==
    /\ callers[c].at = "outside"
    /\ clientManager.authorizeCalls = MaxAuthorize
    /\ clientManager.clients # Null \/ clientManager.initializationPromise # Null
    /\ LET step == InitializeStep(clientManager, MaxAuthorize)
       IN /\ clientManager' = step.cm
          /\ callers' = [callers EXCEPT ![c] = step.caller]
    /\ UNCHANGED <<toolVars, moduleVars, stepVars>>

\* authorize() ends: performInitialization returns the client set or throws.
AuthorizeSettles(p, ok) ==
    /\ clientManager.promise[p] = "pending"
    /\ clientManager' =
          [clientManager EXCEPT !.promise[p] = IF ok THEN "fulfilled" ELSE "rejected"]
    /\ UNCHANGED <<callers, toolVars, moduleVars, stepVars>>

\* The caller that started the initialization goes on after its await:
\* this.clients is set on success, and the finally block clears the promise.
ContinueOwn(c) ==
    /\ callers[c].at = "awaitingOwn"
    /\ clientManager.promise[callers[c].promise] \in {"fulfilled", "rejected"}
    /\ IF clientManager.promise[callers[c].promise] = "fulfilled"
       THEN /\ clientManager' = [clientManager EXCEPT !.clients = callers[c].promise,
                                                      !.initializationPromise = Null]
            /\ callers' = [callers EXCEPT ![c] = Received(callers[c].promise)]
       ELSE /\ clientManager' = [clientManager EXCEPT !.initializationPromise = Null]
            /\ callers' = [callers EXCEPT ![c] = Rejected]
    /\ UNCHANGED <<toolVars, moduleVars, stepVars>>

\* A caller that was handed the pending promise gets what it settled to.
ContinueShared(c) ==
    /\ callers[c].at = "awaitingShared"
    /\ clientManager.promise[callers[c].promise] \in {"fulfilled", "rejected"}
    /\ callers' = [callers EXCEPT ![c] =
                      IF clientManager.promise[callers[c].promise] = "fulfilled"
                      THEN Received(callers[c].promise) ELSE Rejected]
    /\ UNCHANGED <<clientManager, toolVars, moduleVars, stepVars>>

\* The caller leaves with what it got, and may call again.
Leave(c) ==
    /\ callers[c].at \in {"returned", "threw"}
    /\ callers' = [callers EXCEPT ![c] = Outside]
    /\ UNCHANGED <<clientManager, toolVars, moduleVars, stepVars>>

\* reset()
ResetClientManager ==
    /\ clientManager' =
          [clientManager EXCEPT
              !.clients = Null, !.initializationPromise = Null,
              !.resetWhilePending =
                  @ \/ \E p \in Promises : clientManager.promise[p] = "pending"
                    \/ \E c \in Callers : callers[c].at = "awaitingOwn"]
    /\ UNCHANGED <<callers, toolVars, moduleVars, stepVars>>

ClientNext ==
    \/ \E c \in Callers : Initialize(c)
    \/ \E c \in Callers : InitializeCached(c)
    \/ \E p \in Promises, ok \in BOOLEAN : AuthorizeSettles(p, ok)
    \/ \E c \in Callers : ContinueOwn(c)
    \/ \E c \in Callers : ContinueShared(c)
    \/ \E c \in Callers : Leave(c)
    \/ ResetClientManager

-----------------------------------------------------------------------------
(* clients/googleClients.ts.  The clients are module variables; a call of  *)
(* initializeGoogleClient runs to `await authorize()` in one step and goes *)
(* on when authorize() has ended.  A client instance is named by the       *)
(* number of the authorize() call it was made from.                        *)

ClientNames == {"googleDocs", "googleDrive", "googleChat", "googleCalendar", "googleGmail"}
ClientFields == ClientNames \cup {"authClient"}
ClientFunctions == {"initializeGoogleClient", "getDocsClient", "getDriveClient"}

NoGoogleClients ==
    [fields |-> [f \in ClientFields |-> Null], authorizeCalls |-> 0,
     overlapped |-> FALSE]

\* Nothing handed out yet.
NothingYet == [f \in {} |-> Null]

NotCalling == [at |-> "outside", fn |-> "none", authorize |-> Null, got |-> NothingYet]
Authorizing(fn, a) ==
    [at |-> "authorizing", fn |-> fn, authorize |-> a, got |-> NothingYet]

\* What the function hands to its caller out of the fields: all of them,
\* or the one client it is named after.
HandedOut(fn, fields) ==
    CASE fn = "getDocsClient" -> [f \in {"googleDocs"} |-> fields[f]]
      [] fn = "getDriveClient" -> [f \in {"googleDrive"} |-> fields[f]]
      [] OTHER -> fields

Returning(fn, fields) ==
    [at |-> "returned", fn |-> fn, authorize |-> Null, got |-> HandedOut(fn, fields)]
Throwing(fn) == [at |-> "threw", fn |-> fn, authorize |-> Null, got |-> NothingYet]

\* "Ensure all clients are initialized": a client that is missing is made
\* from the auth client.
EnsureClients(fields) ==
    [f \in ClientFields |->
        IF f \in ClientNames /\ fields["authClient"] # Null /\ fields[f] = Null
        THEN fields["authClient"] ELSE fields[f]]

AllClientsSet(fields) == \A f \in ClientNames : fields[f] # Null

\* The try block as it would be if it made the clients and did not keep the
\* auth client.
AfterAuthorize_authNotKept(fields, a, ok) ==
    IF ok THEN [f \in ClientFields |-> IF f = "authClient" THEN Null ELSE a]
    ELSE [f \in ClientFields |-> Null]

\* The fields after authorize() call a has ended: set from the new auth
\* client, or all null.
AfterAuthorize(fields, a, ok) ==
    IF ok THEN [f \in ClientFields |-> a] ELSE [f \in ClientFields |-> Null]

\* The function is entered: it returns the cached clients, or goes on
\* without authorize() when the auth client is there, or calls authorize().
EnterClientFunction(c, fn) ==
    /\ clientCalls[c].at = "outside"
    /\ IF AllClientsSet(googleClients.fields)
       THEN /\ clientCalls' = [clientCalls EXCEPT ![c] = Returning(fn, googleClients.fields)]
            /\ UNCHANGED googleClients
       ELSE IF googleClients.fields["authClient"] # Null
       THEN /\ googleClients' =
                  [googleClients EXCEPT !.fields = EnsureClients(googleClients.fields)]
            /\ clientCalls' =
                  [clientCalls EXCEPT ![c] =
                      Returning(fn, EnsureClients(googleClients.fields))]
       ELSE /\ googleClients.authorizeCalls < MaxAuthorize
            /\ googleClients' =
                  [googleClients EXCEPT
                      !.authorizeCalls = @ + 1,
                      !.overlapped =
                          @ \/ \E o \in Callers : clientCalls[o].at = "authorizing"]
            /\ clientCalls' =
                  [clientCalls EXCEPT ![c] =
                      Authorizing(fn, googleClients.authorizeCalls + 1)]
    /\ UNCHANGED <<toolVars, clientVars, stepVars>>

\* authorize() ends for the call that awaits it.
AuthorizeEnds(c, ok) ==
    /\ clientCalls[c].at = "authorizing"
    /\ googleClients' =
          [googleClients EXCEPT
              !.fields = EnsureClients(AfterAuthorize(googleClients.fields,
                                                      clientCalls[c].authorize, ok))]
    /\ clientCalls' =
          [clientCalls EXCEPT ![c] =
              IF ok
              THEN Returning(clientCalls[c].fn,
                             EnsureClients(AfterAuthorize(googleClients.fields,
                                                          clientCalls[c].authorize, ok)))
              ELSE Throwing(clientCalls[c].fn)]
    /\ UNCHANGED <<toolVars, clientVars, stepVars>>

\* The call is over; its caller may call again.
LeaveClientFunction(c) ==
    /\ clientCalls[c].at \in {"returned", "threw"}
    /\ clientCalls' = [clientCalls EXCEPT ![c] = NotCalling]
    /\ UNCHANGED <<googleClients, toolVars, clientVars, stepVars>>

GoogleClientsNext ==
    \/ \E c \in Callers, fn \in ClientFunctions : EnterClientFunction(c, fn)
    \/ \E c \in Callers, ok \in BOOLEAN : AuthorizeEnds(c, ok)
    \/ \E c \in Callers : LeaveClientFunction(c)

-----------------------------------------------------------------------------
(* The calls the model makes *)

FindDocs == OneRunDocs \cup TwoRunDocs \cup TextTableDocs \cup {HelloDoc, NoContentDoc}
TableToolDocs == TableDocs \cup TextTableDocs \cup {HelloDoc, NoContentDoc}

Patterns == Texts \cup {<<"H", "e", "l", "l", "o">>}
Instances == 1..MaxInstance
IndexesWithin == 0..(MaxRunLen + 6)

FullTextStyle ==
    [bold |-> TRUE, italic |-> FALSE, underline |-> TRUE, strikethrough |-> FALSE,
     fontSize |-> 12, fontFamily |-> "Arial",
     foregroundColor |-> <<"#", "F", "0", "0">>,
     backgroundColor |-> <<"0", "0", "f", "f", "0", "0">>,
     linkUrl |-> "https://example.com"]
TextStyleProps == DOMAIN FullTextStyle
TextStyles == {[p \in S |-> FullTextStyle[p]] : S \in SUBSET TextStyleProps}
BoldOnly == [p \in {"bold"} |-> TRUE]
BadColourStyle == [p \in {"foregroundColor"} |-> <<"r", "e", "d">>]
\* Colours the schema turns away; parseInt reads the digits of the second.
BadColourStyles ==
    {BadColourStyle,
     [p \in {"bold", "backgroundColor"} |->
        IF p = "bold" THEN TRUE ELSE <<"1", "2", "3", "4", "5", "g">>]}
\* A text target with each of these styles.
BadColourTextCalls == {TextTarget(<<"a">>, 1)} \X BadColourStyles
FewTextStyles == {BoldOnly, [p \in {"italic", "foregroundColor"} |-> FullTextStyle[p]]}

FullParagraphStyle ==
    [alignment |-> "CENTER", indentStart |-> 0, indentEnd |-> 36, spaceAbove |-> 0,
     spaceBelow |-> 12, namedStyleType |-> "HEADING_1", keepWithNext |-> FALSE]
ParagraphStyleProps == DOMAIN FullParagraphStyle
ParagraphStyles ==
    {[p \in S |-> FullParagraphStyle[p]] : S \in SUBSET ParagraphStyleProps}
CenterOnly == [p \in {"alignment"} |-> "CENTER"]

GoodRange == RangeTarget(1, 3)
BadRanges == {RangeTarget(2, 2), RangeTarget(0, 1), RangeTarget(3, 1)}
TextTargets == {TextTarget(t, k) : t \in Patterns, k \in Instances}

\* Strings handed to hexToRgbColor: colours of three and six digits with
\* and without "#", and strings that are no colour.
HexStrings ==
    {<<"a", "b", "c">>, <<"a", "a", "b", "b", "c", "c">>, <<"#", "a", "b", "c">>,
     <<"#", "F", "F", "8", "0", "0", "0">>, <<"0", "0", "0">>, <<"f", "f", "f">>,
     <<"1", "2", "3", "4", "5", "g">>, <<"1", "g", "2">>, <<"g", "1", "2">>,
     <<"r", "e", "d">>, <<>>, <<"#">>, <<"a", "b">>, <<"a", "b", "c", "d">>,
     <<"#", "1", "2", "g">>, <<"a", "b", "c", "d", "e", "f", "0">>}

\* Documents the remote holds while a tool that does not fetch works on
\* them: "a", then a table of one cell or of two rows of two cells.
RemoteTableDocs ==
    {Document(<<TextPara(<<"a">>), Tbl(TableShape(w, "full")), TextPara(<<>>)>>) :
        w \in {<<1>>, <<2, 2>>}}

TableIndexes == {0, 1, 3}
RowIndexes == 0..MaxRows
ColumnIndexes == 0..MaxCols
NewContents == {<<>>, <<"Y">>}

Hosts ==
    {NameHost("localhost"), NameHost("example.com"),
     V4Host(127, 0, 0, 1), V4Host(127, 8, 9, 1), V4Host(10, 1, 2, 3),
     V4Host(172, 15, 0, 1), V4Host(172, 16, 0, 1), V4Host(172, 31, 9, 9),
     V4Host(172, 32, 0, 1), V4Host(192, 168, 1, 1), V4Host(192, 169, 1, 1),
     V4Host(169, 254, 169, 254), V4Host(0, 0, 0, 0), V4Host(8, 8, 8, 8),
     V6Loopback, V6Host(65152), V6Host(65215), V6Host(65216), V6Host(64512),
     V6Host(64768), V6Host(65023), V6Host(8193)}
Schemes == {"http", "https", "ftp", "file"}
ImageUrls == {Url(sc, h) : sc \in Schemes, h \in Hosts} \cup {UnparsableUrl}
ImageSizes == {NoSize, [width |-> 100, height |-> 50], [width |-> 100, height |-> 0]}

InsertedTexts == {<<>>, <<"x">>}
InsertIndexes == {0, 1, 5}
DeletedRanges == {GoodRange, RangeTarget(2, 3)} \cup BadRanges

FullCellStyle ==
    [backgroundColor |-> <<"#", "0", "f", "0">>, paddingTop |-> 0, paddingRight |-> 4,
     borderTop |-> [width |-> 1, color |-> <<"F", "F", "0", "0", "0", "0">>,
                    dashStyle |-> "SOLID"],
     borderLeft |-> [width |-> 0, color |-> <<"#", "a", "b", "c">>,
                     dashStyle |-> "DASHED"]]
\* Styles with a colour that is no hex colour, and the style without options.
BadCellStyles ==
    {[p \in {"backgroundColor"} |-> <<"r", "e", "d">>],
     [p \in {"backgroundColor", "paddingTop"} |->
        IF p = "paddingTop" THEN 2 ELSE <<>>],
     [p \in {"borderTop"} |->
        [width |-> 1, color |-> <<"1", "2", "3", "4", "5", "g">>,
         dashStyle |-> "SOLID"]],
     [p \in {"paddingTop"} |-> -1],
     EmptyStyle}
CellStyles ==
    {[p \in S |-> FullCellStyle[p]] : S \in SUBSET DOMAIN FullCellStyle}
        \cup BadCellStyles

\* What a catch block may be handed: the client's error with its status, an
\* error of the helpers, an error without a code.
CaughtErrors ==
    {MkError("ApiError", "api", "", code) : code \in {400, 403, 404, 429, 500, 503, 501}}
        \cup {MkError("UserError", "Could not find", "", 0),
              MkError("NotImplementedError", "not yet implemented", "", 0),
              MkError("Error", "Google API Error", "", 0),
              MkError("TypeError", "Cannot read properties of undefined", "", 0)}

\* The outcomes of a remote call that follows another: a call that is never
\* made has no outcome to choose.
OutcomesAfter(previous, outcomes) == IF previous = ApiOk THEN outcomes ELSE {ApiOk}

\* The answers of the remote to the first fetch, the second fetch and the
\* submission of one call.
Remote(getOutcome, getOutcome2, batchOutcome) ==
    [get |-> getOutcome, get2 |-> getOutcome2, batch |-> batchOutcome]
NoRemote == Remote(ApiOk, ApiOk, ApiOk)

\* A batch of n requests.
BatchOf(n) == [i \in 1..n |-> InsertTextRequest(i, <<"x">>)]
BatchSizes ==
    {0, 1, 2, MAX_BATCH_UPDATE_REQUESTS, MAX_BATCH_UPDATE_REQUESTS + 1}

NoCall ==
    [tool |-> "none", target |-> RangeTarget(0, 0), style |-> EmptyStyle,
     tableIndex |-> 0, rowIndex |-> 0, columnIndex |-> 0, newContent |-> <<>>,
     url |-> UnparsableUrl, index |-> 0, size |-> NoSize, requests |-> <<>>,
     text |-> <<>>, flag |-> FALSE, thrown |-> MkError("", "", "", 0)]

NoError == MkError("", "", "", 0)
NoValue == [text |-> ""]
NoResult == [status |-> "none", error |-> NoError, value |-> NoValue]
ResultOf(r) ==
    IF r.threw THEN [status |-> "threw", error |-> r.error, value |-> NoValue]
    ELSE [status |-> "returned", error |-> NoError, value |-> r.value]

SchemaAccepted(r) == ~(r.threw /\ r.error.type = "ValidationError")

\* One call of a tool (or helper) from start to end: c is the call, d the
\* document the remote holds, o how the remote answers, r what the call
\* handed back, t what its helpers computed on the way.
Finish(c, d, o, r, t) ==
    /\ pc' = "done"
    /\ call' = c
    /\ doc' = d
    /\ remote' = o
    /\ result' = ResultOf(r)
    /\ netLog' = r.net
    /\ trace' = IF SchemaAccepted(r) THEN t ELSE NoTrace
    /\ UNCHANGED <<clientVars, moduleVars, stepVars>>

-----------------------------------------------------------------------------
(* The while loop of findTextRange, one iteration at a time *)

\* The loop's variables when no search is under way.
NoSearch ==
    [at |-> "idle", fullText |-> <<>>, segments |-> <<>>, textToFind |-> <<>>,
     instance |-> 0, foundCount |-> 0, searchStartIndex |-> 0, iterations |-> 0,
     range |-> NullRange]

\* The loop's variables as findTextRange sets them before the while.
SearchFrom(d, textToFind, instance) ==
    [at |-> "loop", fullText |-> Collected(d).fullText,
     segments |-> Collected(d).segments, textToFind |-> textToFind,
     instance |-> instance, foundCount |-> 0, searchStartIndex |-> 0,
     iterations |-> 0, range |-> NullRange]

\* Where the search goes on as it would be if it resumed at the hit itself.
NextSearchStart_atHit(currentIndex) == currentIndex

\* Where the search goes on after the hit at currentIndex.
NextSearchStart(currentIndex) == currentIndex + 1

\* One pass through the while: the test of the condition and, when it holds,
\* the body up to its break, return, continue or end.
SearchIteration(s) ==
    IF ~(s.foundCount < s.instance)
    THEN [s EXCEPT !.at = "notFound", !.iterations = @ + 1]
    ELSE LET currentIndex == IndexOf(s.fullText, s.textToFind, s.searchStartIndex)
             m == MapHit(s.segments, currentIndex, currentIndex + Len(s.textToFind))
         IN IF currentIndex = -1
            THEN [s EXCEPT !.at = "notFound", !.iterations = @ + 1]
            ELSE IF s.foundCount + 1 = s.instance
            THEN IF m.startIndex = -1 \/ m.endIndex = -1
                 THEN [s EXCEPT !.searchStartIndex = NextSearchStart(currentIndex),
                                !.iterations = @ + 1]
                 ELSE [s EXCEPT !.at = "returned", !.foundCount = @ + 1,
                                !.iterations = @ + 1,
                                !.range = FoundRange(m.startIndex, m.endIndex)]
            ELSE [s EXCEPT !.foundCount = @ + 1,
                           !.searchStartIndex = NextSearchStart(currentIndex),
                           !.iterations = @ + 1]

\* The documents the stepwise search runs on.
SearchedDocs == OneRunDocs \cup TwoRunDocs \cup TextTableDocs \cup MalformedDocs

SearchFinished == search.at \in {"returned", "notFound"}

\* findTextRange has fetched a document and collected its text.
StartSearch ==
    /\ search.at = "idle"
    /\ \E d \in SearchedDocs, textToFind \in Texts, instance \in 1..MaxInstance :
            search' = SearchFrom(d, textToFind, instance)
    /\ UNCHANGED <<toolVars, clientVars, moduleVars, styling>>

Iterate ==
    /\ search.at = "loop"
    /\ search' = SearchIteration(search)
    /\ UNCHANGED <<toolVars, clientVars, moduleVars, styling>>

\* findTextRange returns to its caller.
SearchReturns ==
    /\ SearchFinished
    /\ search' = NoSearch
    /\ UNCHANGED <<toolVars, clientVars, moduleVars, styling>>

SearchNext == StartSearch \/ Iterate \/ SearchReturns

-----------------------------------------------------------------------------
(* applyParagraphStyle with a text target, one await at a time, beside *)
(* another caller who edits the same document                          *)

\* The handler's variables, and the remote document (as blocks), when no
\* call is under way.
NoStyling ==
    [at |-> "idle", remote |-> <<>>, textToFind |-> <<>>, matchInstance |-> 0,
     firstFetch |-> NoContentDoc, textRange |-> NullRange,
     lastFetch |-> NoContentDoc, paragraphRange |-> NullRange,
     net |-> <<>>, edits |-> 0, editedBetween |-> FALSE]

\* The remote documents the call starts on: one or two paragraphs.
StyledBlocks ==
    {<<TextPara(t)>> : t \in Texts}
        \cup {<<TextPara(t1), TextPara(t2)>> : t1 \in ShortTexts, t2 \in ShortTexts}

\* What one edit of another caller makes of the document: a paragraph put
\* in front, a paragraph put at the end, or the first paragraph deleted.
EditsOf(blocks) ==
    {<<TextPara(t)>> \o blocks : t \in ShortTexts}
        \cup {blocks \o <<TextPara(t)>> : t \in ShortTexts}
        \cup (IF Len(blocks) > 1 THEN {Tail(blocks)} ELSE {})

\* The index the lookup would ask about if it took the character before
\* the found text.
LookupIndex_before(textRange) == textRange.startIndex - 1

\* The index getParagraphRange is asked about.
LookupIndex(textRange) == textRange.startIndex

\* STEP 1, first await: findTextRange fetches the document and searches it.
SearchStep(s, getOutcome) ==
    LET textRange == FindTextRange(Document(s.remote), getOutcome, s.textToFind,
                                   IF s.matchInstance = 0 THEN 1 ELSE s.matchInstance)
    IN IF textRange.threw
       THEN [s EXCEPT !.at = "failed", !.net = textRange.net]
       ELSE IF ~textRange.value.found
       THEN [s EXCEPT !.at = "failed", !.net = textRange.net,
                      !.firstFetch = Document(s.remote),
                      !.lastFetch = Document(s.remote)]
       ELSE [s EXCEPT !.at = "searched", !.net = textRange.net,
                      !.firstFetch = Document(s.remote),
                      !.lastFetch = Document(s.remote),
                      !.textRange = textRange.value]

\* STEP 1, second await: getParagraphRange fetches the document again and
\* looks for the paragraph that holds the start of the found range.
LookupStep(s, getOutcome2) ==
    LET paragraphRange == GetParagraphRange(Document(s.remote), getOutcome2,
                                            LookupIndex(s.textRange))
    IN IF paragraphRange.threw
       THEN [s EXCEPT !.at = "failed", !.net = @ \o paragraphRange.net]
       ELSE IF ~paragraphRange.value.found
       THEN [s EXCEPT !.at = "failed", !.net = @ \o paragraphRange.net,
                      !.lastFetch = Document(s.remote)]
       ELSE [s EXCEPT !.at = "looked", !.net = @ \o paragraphRange.net,
                      !.lastFetch = Document(s.remote),
                      !.paragraphRange = paragraphRange.value]

\* STEPS 2 and 3: the request is built for the paragraph's range and sent.
SubmitStep(s, batchOutcome, style) ==
    LET sent == StyleAndSubmit(
                    buildUpdateParagraphStyleRequest(s.paragraphRange.startIndex,
                                                     s.paragraphRange.endIndex, style),
                    batchOutcome, s.paragraphRange.startIndex,
                    s.paragraphRange.endIndex,
                    "Invalid paragraph range",
                    "No valid paragraph styling options were provided",
                    "Successfully applied paragraph styles")
    IN [s EXCEPT !.at = IF sent.threw THEN "failed" ELSE "submitted",
                 !.net = @ \o sent.net]

\* The tool is called and runs up to the end of its search.
StylingSearches ==
    /\ styling.at = "idle"
    /\ \E blocks \in StyledBlocks, textToFind \in ShortTexts :
       \E matchInstance \in 1..MaxInstance, getOutcome \in GetOutcomes :
            styling' = SearchStep([NoStyling EXCEPT !.remote = blocks,
                                                    !.textToFind = textToFind,
                                                    !.matchInstance = matchInstance],
                                  getOutcome)
    /\ UNCHANGED <<toolVars, clientVars, moduleVars, search>>

\* Another caller's batchUpdate is applied to the document while the call
\* is between two of its awaits.
OtherCallerEdits ==
    /\ styling.at \in {"searched", "looked"}
    /\ styling.edits < MaxEdits
    /\ \E blocks \in EditsOf(styling.remote) :
            styling' = [styling EXCEPT !.remote = blocks, !.edits = @ + 1,
                                       !.editedBetween =
                                            @ \/ styling.at = "searched"]
    /\ UNCHANGED <<toolVars, clientVars, moduleVars, search>>

StylingLooksUp ==
    /\ styling.at = "searched"
    /\ \E getOutcome2 \in GetOutcomes : styling' = LookupStep(styling, getOutcome2)
    /\ UNCHANGED <<toolVars, clientVars, moduleVars, search>>

StylingSubmits ==
    /\ styling.at = "looked"
    /\ \E batchOutcome \in BatchOutcomes :
            styling' = SubmitStep(styling, batchOutcome, CenterOnly)
    /\ UNCHANGED <<toolVars, clientVars, moduleVars, search>>

\* The tool returns or throws.
StylingEnds ==
    /\ styling.at \in {"submitted", "failed"}
    /\ styling' = NoStyling
    /\ UNCHANGED <<toolVars, clientVars, moduleVars, search>>

StylingNext ==
    \/ StylingSearches
    \/ OtherCallerEdits
    \/ StylingLooksUp
    \/ StylingSubmits
    \/ StylingEnds

-----------------------------------------------------------------------------
Init ==
    /\ doc = NoContentDoc
    /\ remote = NoRemote
    /\ pc = "idle"
    /\ call = NoCall
    /\ result = NoResult
    /\ netLog = <<>>
    /\ trace = NoTrace
    /\ clientManager = NewClientManager
    /\ callers = [c \in Callers |-> Outside]
    /\ googleClients = NoGoogleClients
    /\ clientCalls = [c \in Callers |-> NotCalling]
    /\ search = NoSearch
    /\ styling = NoStyling

\* applyTextStyle with a range target: no fetch.
ApplyTextStyleRange ==
    /\ pc = "idle"
    /\ \E batchOutcome \in BatchOutcomes :
       \E in \in ({GoodRange} \X (TextStyles \cup BadColourStyles))
                 \cup (BadRanges \X FewTextStyles) :
           Finish([NoCall EXCEPT !.tool = "applyTextStyle", !.target = in[1],
                                 !.style = in[2]],
                  doc,
                  Remote(ApiOk, ApiOk, batchOutcome),
                  ApplyTextStyleTool(doc, ApiOk, batchOutcome, in[1], in[2]),
                  NoTrace)

\* applyTextStyle with a text target.
ApplyTextStyleText ==
    /\ pc = "idle"
    /\ \E d \in FindDocs, getOutcome \in GetOutcomes :
       \E batchOutcome \in OutcomesAfter(getOutcome, BatchOutcomes) :
       \E in \in (TextTargets \X {BoldOnly}) \cup BadColourTextCalls :
           Finish([NoCall EXCEPT !.tool = "applyTextStyle", !.target = in[1],
                                 !.style = in[2]],
                  d,
                  Remote(getOutcome, ApiOk, batchOutcome),
                  ApplyTextStyleTool(d, getOutcome, batchOutcome, in[1], in[2]),
                  FindTrace(d, getOutcome, in[1].textToFind, in[1].matchInstance))

FormatMatchingText ==
    /\ pc = "idle"
    /\ \E d \in FindDocs, getOutcome \in GetOutcomes :
       \E batchOutcome \in OutcomesAfter(getOutcome, BatchOutcomes) :
       \E in \in ((TextTargets \cup {TextTarget(<<>>, 1)}) \X {FullTextStyle})
                 \cup BadColourTextCalls :
           Finish([NoCall EXCEPT !.tool = "formatMatchingText", !.target = in[1],
                                 !.style = in[2]],
                  d,
                  Remote(getOutcome, ApiOk, batchOutcome),
                  FormatMatchingTextTool(d, getOutcome, batchOutcome, in[1].textToFind,
                                         in[1].matchInstance, in[2]),
                  FindTrace(d, getOutcome, in[1].textToFind, in[1].matchInstance))

\* applyParagraphStyle with a range target: no fetch.
ApplyParagraphStyleRange ==
    /\ pc = "idle"
    /\ \E batchOutcome \in BatchOutcomes :
       \E in \in ({GoodRange} \X ParagraphStyles) \cup (BadRanges \X {CenterOnly}) :
           Finish([NoCall EXCEPT !.tool = "applyParagraphStyle", !.target = in[1],
                                 !.style = in[2]],
                  doc,
                  Remote(ApiOk, ApiOk, batchOutcome),
                  ApplyParagraphStyleTool(doc, ApiOk, ApiOk, batchOutcome, in[1], in[2]),
                  NoTrace)

\* applyParagraphStyle with a text target or an index within the paragraph.
ApplyParagraphStyleLookup ==
    /\ pc = "idle"
    /\ \E d \in FindDocs, getOutcome \in GetOutcomes :
       \E getOutcome2 \in OutcomesAfter(getOutcome, GetOutcomes) :
       \E batchOutcome \in OutcomesAfter(getOutcome2, BatchOutcomes) :
       \E target \in TextTargets \cup {IndexTarget(i) : i \in IndexesWithin} :
           Finish([NoCall EXCEPT !.tool = "applyParagraphStyle", !.target = target,
                                 !.style = CenterOnly],
                  d,
                  Remote(getOutcome, getOutcome2, batchOutcome),
                  ApplyParagraphStyleTool(d, getOutcome, getOutcome2, batchOutcome,
                                          target, CenterOnly),
                  ParagraphTrace(d, getOutcome, getOutcome2, target))

GetTableCell ==
    /\ pc = "idle"
    /\ \E d \in TableToolDocs, getOutcome \in GetOutcomes :
       \E tableIndex \in TableIndexes, rowIndex \in RowIndexes,
          columnIndex \in ColumnIndexes :
           Finish([NoCall EXCEPT !.tool = "getTableCell", !.tableIndex = tableIndex,
                                 !.rowIndex = rowIndex, !.columnIndex = columnIndex],
                  d,
                  Remote(getOutcome, ApiOk, ApiOk),
                  GetTableCellTool(d, getOutcome, tableIndex, rowIndex, columnIndex),
                  NoTrace)

UpdateTableCell ==
    /\ pc = "idle"
    /\ \E d \in TableToolDocs, getOutcome \in GetOutcomes :
       \E batchOutcome \in OutcomesAfter(getOutcome, BatchOutcomes) :
       \E tableIndex \in TableIndexes, rowIndex \in RowIndexes,
          columnIndex \in ColumnIndexes, newContent \in NewContents :
           Finish([NoCall EXCEPT !.tool = "updateTableCell", !.tableIndex = tableIndex,
                                 !.rowIndex = rowIndex, !.columnIndex = columnIndex,
                                 !.newContent = newContent],
                  d,
                  Remote(getOutcome, ApiOk, batchOutcome),
                  UpdateTableCellTool(d, getOutcome, batchOutcome, tableIndex, rowIndex,
                                      columnIndex, newContent),
                  NoTrace)

InsertImageFromUrl ==
    /\ pc = "idle"
    /\ \E batchOutcome \in BatchOutcomes :
       \E url \in ImageUrls, index \in {0, 1}, size \in ImageSizes :
           Finish([NoCall EXCEPT !.tool = "insertImageFromUrl", !.url = url,
                                 !.index = index, !.size = size],
                  doc,
                  Remote(ApiOk, ApiOk, batchOutcome),
                  InsertImageFromUrlTool(batchOutcome, url, index, size),
                  NoTrace)

InsertText ==
    /\ pc = "idle"
    /\ \E batchOutcome \in BatchOutcomes :
       \E text \in InsertedTexts, index \in InsertIndexes :
           Finish([NoCall EXCEPT !.tool = "insertText", !.text = text,
                                 !.index = index],
                  doc,
                  Remote(ApiOk, ApiOk, batchOutcome),
                  InsertTextTool(batchOutcome, text, index),
                  NoTrace)

DeleteRange ==
    /\ pc = "idle"
    /\ \E batchOutcome \in BatchOutcomes, target \in DeletedRanges :
           Finish([NoCall EXCEPT !.tool = "deleteRange", !.target = target],
                  doc,
                  Remote(ApiOk, ApiOk, batchOutcome),
                  DeleteRangeTool(batchOutcome, target.startIndex, target.endIndex),
                  NoTrace)

ListTables ==
    /\ pc = "idle"
    /\ \E d \in TableToolDocs, getOutcome \in GetOutcomes :
           Finish([NoCall EXCEPT !.tool = "listTables"],
                  d,
                  Remote(getOutcome, ApiOk, ApiOk),
                  ListTablesTool(d, getOutcome),
                  NoTrace)

ApplyTableCellStyle ==
    /\ pc = "idle"
    /\ \E d \in RemoteTableDocs, batchOutcome \in BatchOutcomes :
       \E tableIndex \in TableIndexes, rowIndex \in {0, 1}, columnIndex \in {0, 1},
          style \in CellStyles :
           Finish([NoCall EXCEPT !.tool = "applyTableCellStyle",
                                 !.tableIndex = tableIndex, !.rowIndex = rowIndex,
                                 !.columnIndex = columnIndex, !.style = style],
                  d,
                  Remote(ApiOk, ApiOk, batchOutcome),
                  ApplyTableCellStyleTool(batchOutcome, tableIndex, rowIndex,
                                          columnIndex, style),
                  NoTrace)

InsertTableRow ==
    /\ pc = "idle"
    /\ \E d \in RemoteTableDocs, batchOutcome \in BatchOutcomes :
       \E tableIndex \in TableIndexes, rowIndex \in RowIndexes, flag \in BOOLEAN :
           Finish([NoCall EXCEPT !.tool = "insertTableRow", !.tableIndex = tableIndex,
                                 !.rowIndex = rowIndex, !.flag = flag],
                  d,
                  Remote(ApiOk, ApiOk, batchOutcome),
                  InsertTableRowTool(batchOutcome, tableIndex, rowIndex, flag),
                  NoTrace)

DeleteTableRow ==
    /\ pc = "idle"
    /\ \E d \in RemoteTableDocs, batchOutcome \in BatchOutcomes :
       \E tableIndex \in TableIndexes, rowIndex \in RowIndexes :
           Finish([NoCall EXCEPT !.tool = "deleteTableRow", !.tableIndex = tableIndex,
                                 !.rowIndex = rowIndex],
                  d,
                  Remote(ApiOk, ApiOk, batchOutcome),
                  DeleteTableRowTool(batchOutcome, tableIndex, rowIndex),
                  NoTrace)

InsertTableColumn ==
    /\ pc = "idle"
    /\ \E d \in RemoteTableDocs, batchOutcome \in BatchOutcomes :
       \E tableIndex \in TableIndexes, columnIndex \in ColumnIndexes,
          flag \in BOOLEAN :
           Finish([NoCall EXCEPT !.tool = "insertTableColumn",
                                 !.tableIndex = tableIndex,
                                 !.columnIndex = columnIndex, !.flag = flag],
                  d,
                  Remote(ApiOk, ApiOk, batchOutcome),
                  InsertTableColumnTool(batchOutcome, tableIndex, columnIndex, flag),
                  NoTrace)

DeleteTableColumn ==
    /\ pc = "idle"
    /\ \E d \in RemoteTableDocs, batchOutcome \in BatchOutcomes :
       \E tableIndex \in TableIndexes, columnIndex \in ColumnIndexes :
           Finish([NoCall EXCEPT !.tool = "deleteTableColumn",
                                 !.tableIndex = tableIndex,
                                 !.columnIndex = columnIndex],
                  d,
                  Remote(ApiOk, ApiOk, batchOutcome),
                  DeleteTableColumnTool(batchOutcome, tableIndex, columnIndex),
                  NoTrace)

\* Direct calls of the exported utilities validateRange and handleToolError.
ValidateRange ==
    /\ pc = "idle"
    /\ \E target \in DeletedRanges :
           Finish([NoCall EXCEPT !.tool = "validateRange", !.target = target],
                  doc,
                  NoRemote,
                  validateRange(target.startIndex, target.endIndex),
                  NoTrace)

HandleToolError ==
    /\ pc = "idle"
    /\ \E error \in CaughtErrors :
           Finish([NoCall EXCEPT !.tool = "handleToolError", !.thrown = error],
                  doc,
                  NoRemote,
                  handleToolError(error),
                  NoTrace)

\* A direct call of the exported helper executeBatchUpdate.
ExecuteBatchUpdate ==
    /\ pc = "idle"
    /\ \E batchOutcome \in BatchOutcomes, n \in BatchSizes :
           Finish([NoCall EXCEPT !.tool = "executeBatchUpdate", !.requests = BatchOf(n)],
                  doc,
                  Remote(ApiOk, ApiOk, batchOutcome),
                  executeBatchUpdate(BatchOf(n), batchOutcome),
                  NoTrace)

\* hexToRgbColor called on a string.
HexToRgbColor ==
    /\ pc = "idle"
    /\ \E hex \in HexStrings :
           Finish([NoCall EXCEPT !.tool = "hexToRgbColor", !.text = hex],
                  doc,
                  NoRemote,
                  Returned(hexToRgbColor(hex), <<>>),
                  NoTrace)

\* findTextRange called on whatever tree the fetch hands over.
FindTextRangeOnTree ==
    /\ pc = "idle"
    /\ \E d \in MalformedDocs \cup OneRunDocs, getOutcome \in GetOutcomes,
          textToFind \in ShortTexts, instance \in 1..2 :
           Finish([NoCall EXCEPT !.tool = "findTextRange",
                                 !.target = TextTarget(textToFind, instance)],
                  d,
                  Remote(getOutcome, ApiOk, ApiOk),
                  FindTextRange(d, getOutcome, textToFind, instance),
                  NoTrace)

\* The next call starts.
Reset ==
    /\ pc = "done"
    /\ pc' = "idle"
    /\ call' = NoCall
    /\ result' = NoResult
    /\ netLog' = <<>>
    /\ trace' = NoTrace
    /\ doc' = NoContentDoc
    /\ remote' = NoRemote
    /\ UNCHANGED <<clientVars, moduleVars, stepVars>>

Next ==
    \/ ApplyTextStyleRange
    \/ ApplyTextStyleText
    \/ FormatMatchingText
    \/ ApplyParagraphStyleRange
    \/ ApplyParagraphStyleLookup
    \/ GetTableCell
    \/ UpdateTableCell
    \/ InsertImageFromUrl
    \/ ExecuteBatchUpdate
    \/ InsertText
    \/ DeleteRange
    \/ ListTables
    \/ ApplyTableCellStyle
    \/ InsertTableRow
    \/ DeleteTableRow
    \/ InsertTableColumn
    \/ DeleteTableColumn
    \/ ValidateRange
    \/ HandleToolError
    \/ FindTextRangeOnTree
    \/ HexToRgbColor
    \/ Reset

Spec == Init /\ [][Next]_vars

\* The callers of ClientManager.initialize(), with no tool running.
ClientSpec == Init /\ [][ClientNext]_vars

\* The calls of initializeGoogleClient and of the client getters.
GoogleClientsSpec == Init /\ [][GoogleClientsNext]_vars

\* The search loop alone. The loop is synchronous code: once entered it runs
\* on, pass after pass, until it leaves the function.
SearchSpec == Init /\ [][SearchNext]_vars /\ WF_vars(Iterate)

\* applyParagraphStyle with a text target beside another caller's edits.
StylingSpec == Init /\ [][StylingNext]_vars

-----------------------------------------------------------------------------
(* Properties *)

Done(tool) == pc = "done" /\ call.tool = tool

\* The call passed its parameters schema.
Accepted == ~(result.status = "threw" /\ result.error.type = "ValidationError")

\* The documents.batchUpdate calls of the call, in order.
BatchCalls == SelectSeq(netLog, LAMBDA c : c.api = "documents.batchUpdate")

\* C1, as stated: executeBatchUpdate called with more than
\* MAX_BATCH_UPDATE_REQUESTS requests rejects the batch with an error before
\* submission; no documents.batchUpdate call is made for it.
C1_RejectsLargeBatch ==
    (Done("executeBatchUpdate") /\ Len(call.requests) > MAX_BATCH_UPDATE_REQUESTS)
        => (result.status = "threw" /\ BatchCalls = <<>>)

\* C1, amended: executeBatchUpdate called with more than
\* MAX_BATCH_UPDATE_REQUESTS requests does not reject the batch: it submits
\* all of it in exactly one documents.batchUpdate call, and it throws only
\* when that call fails.
C1_SubmitsLargeBatch ==
    (Done("executeBatchUpdate") /\ Len(call.requests) > MAX_BATCH_UPDATE_REQUESTS)
        => /\ netLog = <<BatchCall(call.requests)>>
           /\ (result.status = "threw") <=> (remote.batch # ApiOk)

C1_Witness ==
    /\ Done("executeBatchUpdate")
    /\ Len(call.requests) = MAX_BATCH_UPDATE_REQUESTS + 1
    /\ WarnsBatchSize(call.requests)
    /\ result.status = "returned"
    /\ netLog = <<BatchCall(call.requests)>>

\* The table the call addresses in the fetched document (its position in
\* the content, 0 when there is none), its rows, and the addressed cell.
AddressedTable == IF doc.hasContent THEN TableAt(doc.content, call.tableIndex) ELSE 0
AddressedRows == doc.content[AddressedTable].tableRows
RowCount == Len(AddressedRows)
ColumnCount == IF AddressedRows = <<>> THEN 0 ELSE Len(AddressedRows[1].tableCells)
CellsOfAddressedRow == Len(AddressedRows[call.rowIndex + 1].tableCells)
CellExists ==
    /\ AddressedTable # 0
    /\ call.rowIndex < RowCount
    /\ call.columnIndex < CellsOfAddressedRow
AddressedCell == AddressedRows[call.rowIndex + 1].tableCells[call.columnIndex + 1]

\* updateTableCell ran, its fetch answered, and the addressed cell exists.
UpdateReachedCell ==
    /\ Done("updateTableCell")
    /\ Accepted
    /\ remote.get = ApiOk
    /\ CellExists

SubmittedRequests == IF BatchCalls = <<>> THEN <<>> ELSE BatchCalls[1].requests

\* C2: updateTableCellContent on a cell whose existing content is not empty,
\* with a newContent that is not empty, submits one batch of exactly two
\* requests: first deleteContentRange over the content of the cell, then
\* insertText of newContent at the start index of that range.
C2_DeleteThenInsert ==
    (/\ UpdateReachedCell
     /\ Len(CellTextOf(AddressedCell.content)) > 1
     /\ call.newContent # <<>>)
        => /\ Len(BatchCalls) = 1
           /\ Len(SubmittedRequests) = 2
           /\ SubmittedRequests[1].kind = "deleteContentRange"
           /\ SubmittedRequests[1].range.startIndex = AddressedCell.startIndex + 1
           /\ SubmittedRequests[1].range.endIndex > SubmittedRequests[1].range.startIndex
           /\ SubmittedRequests[2].kind = "insertText"
           /\ SubmittedRequests[2].text = call.newContent
           /\ SubmittedRequests[2].location.index = SubmittedRequests[1].range.startIndex

C2_Witness ==
    /\ UpdateReachedCell
    /\ CellTextOf(AddressedCell.content) = <<"x", NL>>
    /\ call.newContent = <<"Y">>
    /\ result.status = "returned"
    /\ Len(SubmittedRequests) = 2
    /\ SubmittedRequests[2].kind = "insertText"

DeleteRequests == SelectSeq(SubmittedRequests, LAMBDA r : r.kind = "deleteContentRange")

\* C3, as stated: the range updateTableCellContent deletes for the cell is
\* exactly [cell.startIndex + 1, cell.endIndex) of the cell in the fetched
\* document.
C3_DeletesToCellEnd ==
    (UpdateReachedCell /\ DeleteRequests # <<>>)
        => DeleteRequests = <<[kind |-> "deleteContentRange",
                               range |-> [startIndex |-> AddressedCell.startIndex + 1,
                                          endIndex |-> AddressedCell.endIndex]]>>

\* C3, amended: the range updateTableCellContent deletes for the cell is
\* exactly [cell.startIndex + 1, cell.endIndex - 1) of the cell in the
\* fetched document, which leaves the last index of the cell in place; when
\* that range is empty, no delete request is submitted.
C3_DeletesUpToLastIndex ==
    UpdateReachedCell
        => DeleteRequests =
              IF AddressedCell.endIndex - 1 > AddressedCell.startIndex + 1
              THEN <<[kind |-> "deleteContentRange",
                      range |-> [startIndex |-> AddressedCell.startIndex + 1,
                                 endIndex |-> AddressedCell.endIndex - 1]]>>
              ELSE <<>>

C3_Witness ==
    /\ UpdateReachedCell
    /\ AddressedCell.endIndex - AddressedCell.startIndex = 4
    /\ Len(DeleteRequests) = 1
    /\ DeleteRequests[1].range.endIndex = AddressedCell.endIndex - 1
    /\ DeleteRequests[1].range.endIndex - DeleteRequests[1].range.startIndex = 2

\* A formatting tool ran with a text target and its first fetch answered.
TextCall ==
    /\ pc = "done"
    /\ call.tool \in {"applyTextStyle", "applyParagraphStyle", "formatMatchingText"}
    /\ call.target.kind = "text"
    /\ Accepted
    /\ remote.get = ApiOk

\* The offsets at which pat occurs in text.
Occurrences(text, pat) == {i \in 0..Len(text) : OccursAt(text, pat, i)}
OccurrencesInDoc == Occurrences(trace.fullText, call.target.textToFind)

NotFoundError ==
    /\ result.status = "threw"
    /\ result.error.type = "UserError"
    /\ result.error.msg \in {"Could not find instance of text",
                             "Could not find text in the document"}

\* C4: when textToFind occurs fewer than k times in the reconstructed text,
\* findTextRange(textToFind, k) yields null, never a range, and applyTextStyle,
\* applyParagraphStyle and formatMatchingText then submit no batch.
C4_FewerThanKIsNotFound ==
    (TextCall /\ Cardinality(OccurrencesInDoc) < call.target.matchInstance)
        => /\ ~trace.range.found
           /\ NotFoundError
           /\ netLog = <<GetCall>>

C4_Witness ==
    /\ TextCall
    /\ call.tool = "applyParagraphStyle"
    /\ Cardinality(OccurrencesInDoc) = 2
    /\ call.target.matchInstance = 3
    /\ NotFoundError
    /\ BatchCalls = <<>>

\* The offset in the reconstructed text at which segment j starts: the sum
\* of the lengths of the segments before it.
ReconStart(segments, j) == SumLens([i \in 1..(j - 1) |-> segments[i].text])

\* The k-th offset, from the left, at which pat occurs in text.
KthOccurrence(text, pat, k) ==
    CHOOSE i \in Occurrences(text, pat) :
        Cardinality({j \in Occurrences(text, pat) : j < i}) = k - 1

\* The range the formula of C5 gives for the hit at [hitStart, hitEnd).
MappedRange(segments, hitStart, hitEnd) ==
    LET s == CHOOSE j \in 1..Len(segments) :
                 /\ ReconStart(segments, j) <= hitStart
                 /\ hitStart < ReconStart(segments, j) + Len(segments[j].text)
        e == CHOOSE j \in 1..Len(segments) :
                 /\ ReconStart(segments, j) < hitEnd
                 /\ hitEnd <= ReconStart(segments, j) + Len(segments[j].text)
    IN [found |-> TRUE,
        startIndex |-> segments[s].start + (hitStart - ReconStart(segments, s)),
        endIndex |-> segments[e].start + (hitEnd - ReconStart(segments, e))]

\* C5: findTextRange maps the instance-th hit [hitStart, hitEnd) of the
\* reconstructed text to startIndex = s.start + (hitStart - reconStart(s)) for
\* the segment s that holds hitStart and endIndex = e.start + (hitEnd -
\* reconStart(e)) for the segment e that holds hitEnd, a hit that ends on a
\* segment boundary mapping to the end of that segment; instance 2 of "Hello"
\* in "Hello world. Hello again." starting at index 1 gives [14, 19).
C5_HitMapsToAbsoluteRange ==
    (TextCall /\ Cardinality(OccurrencesInDoc) >= call.target.matchInstance)
        => LET hitStart == KthOccurrence(trace.fullText, call.target.textToFind,
                                         call.target.matchInstance)
               hitEnd == hitStart + Len(call.target.textToFind)
           IN /\ trace.range = MappedRange(trace.segments, hitStart, hitEnd)
              /\ trace.failed = <<>>
              /\ (call.tool # "applyParagraphStyle" /\ result.status = "returned")
                    => /\ result.value.startIndex = trace.range.startIndex
                       /\ result.value.endIndex = trace.range.endIndex
              /\ (doc = HelloDoc /\ call.target.textToFind = <<"H", "e", "l", "l", "o">>
                      /\ call.target.matchInstance = 2)
                    => trace.range = FoundRange(14, 19)

\* The second hit starts in the last character of one run and ends in the
\* next run, an inline object lying between the two.
C5_Witness ==
    /\ TextCall
    /\ call.tool = "applyTextStyle"
    /\ result.status = "returned"
    /\ Len(trace.segments) = 2
    /\ trace.segments[2].start > trace.segments[1].end
    /\ Len(call.target.textToFind) = 2
    /\ call.target.matchInstance = 2
    /\ Len(trace.counted) = 2
    /\ trace.counted[2] = Len(trace.segments[1].text) - 1
    /\ trace.range.startIndex = trace.segments[1].end - 1
    /\ trace.range.endIndex = trace.segments[2].start + 1

\* C6: the segments findTextRange maps with: their text lengths add up to
\* the length of the reconstructed text, and they are strictly increasing
\* in start index and do not overlap.
C6_SegmentsCoverAndIncrease ==
    (pc = "done" /\ trace.op = "findTextRange")
        => /\ ReconStart(trace.segments, Len(trace.segments) + 1) = Len(trace.fullText)
           /\ \A i \in 1..(Len(trace.segments) - 1) :
                 /\ trace.segments[i].start < trace.segments[i + 1].start
                 /\ trace.segments[i].end <= trace.segments[i + 1].start

\* Segments of text before, inside (nested included) and after a table.
C6_Witness ==
    /\ pc = "done"
    /\ trace.op = "findTextRange"
    /\ Len(trace.segments) = 5
    /\ Len(trace.fullText) = 9
    /\ trace.segments[2].end < trace.segments[3].start

\* C7: a range findTextRange or getParagraphRange returns has
\* endIndex > startIndex.
C7_RangesAreNotEmpty ==
    pc = "done"
        => /\ trace.range.found => trace.range.endIndex > trace.range.startIndex
           /\ trace.paragraph.found
                 => trace.paragraph.endIndex > trace.paragraph.startIndex

C7_Witness ==
    /\ TextCall
    /\ call.tool = "applyParagraphStyle"
    /\ trace.range.found
    /\ trace.paragraphAsked
    /\ trace.paragraph.found
    /\ trace.paragraph.startIndex < trace.range.startIndex
    /\ result.status = "returned"

\* A formatting tool ran and submitted a batch.
StyleSubmitted ==
    /\ pc = "done"
    /\ call.tool \in {"applyTextStyle", "applyParagraphStyle", "formatMatchingText"}
    /\ BatchCalls # <<>>

\* The name under which the request carries a property of the intent.
MaskName(p) ==
    CASE p = "fontFamily" -> "weightedFontFamily"
      [] p = "linkUrl" -> "link"
      [] OTHER -> p

\* C8: the field mask of the request built by buildUpdateTextStyleRequest or
\* buildUpdateParagraphStyleRequest has an entry for a property if and only
\* if the intent holds the property ({bold: true} gives exactly "bold"), and
\* the style payload carries no value for a property the intent lacks.
C8_MaskListsExactlyWhatIsSet ==
    StyleSubmitted
        => LET request == SubmittedRequests[1]
           IN /\ Len(SubmittedRequests) = 1
              /\ \A p \in TextStyleProps \cup ParagraphStyleProps :
                    (\E i \in DOMAIN request.fields : request.fields[i] = MaskName(p))
                        <=> p \in DOMAIN call.style
              /\ Len(request.fields) = Cardinality(DOMAIN call.style)
              /\ DOMAIN request.style = {MaskName(p) : p \in DOMAIN call.style}
              /\ DOMAIN call.style = {"bold"} => request.fields = <<"bold">>

C8_Witness ==
    /\ StyleSubmitted
    /\ call.tool = "applyTextStyle"
    /\ DOMAIN call.style = {"bold", "fontFamily", "linkUrl"}
    /\ SubmittedRequests[1].fields = <<"bold", "weightedFontFamily", "link">>
    /\ result.status = "returned"

\* getTableCell or updateTableCell ran, its fetch answered, and the document
\* holds a table at tableIndex.
TableCallReachedTable ==
    /\ pc = "done"
    /\ call.tool \in {"getTableCell", "updateTableCell"}
    /\ Accepted
    /\ remote.get = ApiOk
    /\ AddressedTable # 0

OutOfBoundsError ==
    /\ result.status = "threw"
    /\ result.error.type = "UserError"
    /\ result.error.msg \in {"Row index out of bounds", "Column index out of bounds"}

\* Does the request touch nothing but indices of the cell?
RequestWithin(request, cell) ==
    IF request.kind = "deleteContentRange"
    THEN /\ request.range.startIndex > cell.startIndex
         /\ request.range.endIndex < cell.endIndex
    ELSE /\ request.location.index > cell.startIndex
         /\ request.location.index < cell.endIndex

\* C9, as stated: getTableCell, and the cell lookup of updateTableCell, with
\* rowIndex >= rowCount or columnIndex >= columnCount of the addressed table
\* ends in an out-of-bounds error, whatever the shape of the table.
C9_OutOfBoundsByTableCounts ==
    (TableCallReachedTable
     /\ (call.rowIndex >= RowCount \/ call.columnIndex >= ColumnCount))
        => (OutOfBoundsError /\ BatchCalls = <<>>)

\* C9, amended: getTableCell with rowIndex >= rowCount or columnIndex >=
\* columnCount (the number of cells of the first row) ends in an
\* out-of-bounds error; the cell lookup of updateTableCell ends in an
\* out-of-bounds error when rowIndex >= rowCount or columnIndex >= the number
\* of cells of the addressed row; a columnIndex below columnCount that the
\* addressed row does not hold makes getTableCell fail with "Failed to get
\* table cell"; in every table shape, a cell that is returned or edited is
\* the cell at (rowIndex, columnIndex).
C9_OutOfBoundsNeverClamps ==
    TableCallReachedTable
        => /\ (call.tool = "getTableCell"
                /\ (call.rowIndex >= RowCount \/ call.columnIndex >= ColumnCount))
                 => OutOfBoundsError
           /\ (call.tool = "getTableCell" /\ call.rowIndex < RowCount
                /\ call.columnIndex < ColumnCount /\ ~CellExists)
                 => /\ result.status = "threw"
                    /\ result.error.msg = "Failed to get table cell"
           /\ (call.tool = "updateTableCell" /\ ~CellExists)
                 => (OutOfBoundsError /\ BatchCalls = <<>>)
           /\ (call.tool = "getTableCell" /\ result.status = "returned")
                 => /\ CellExists
                    /\ result.value.startIndex = AddressedCell.startIndex
                    /\ result.value.endIndex = AddressedCell.endIndex
                    /\ result.value.content = Trim(CellTextOf(AddressedCell.content))
           /\ (call.tool = "updateTableCell" /\ BatchCalls # <<>>)
                 => /\ CellExists
                    /\ \A i \in DOMAIN SubmittedRequests :
                          RequestWithin(SubmittedRequests[i], AddressedCell)

\* A row with fewer cells than the first: updateTableCell on a column the
\* first row holds and the addressed row does not.
C9_Witness ==
    /\ TableCallReachedTable
    /\ call.tool = "updateTableCell"
    /\ call.rowIndex < RowCount
    /\ call.columnIndex < ColumnCount
    /\ call.columnIndex >= CellsOfAddressedRow
    /\ OutOfBoundsError
    /\ netLog = <<GetCall>>

\* Loopback and private-network hosts: localhost, 127.0.0.0/8, 10.0.0.0/8,
\* 172.16.0.0/12, 192.168.0.0/16, 169.254.0.0/16, 0.0.0.0, ::1, fe80::/10
\* (link-local) and fc00::/7 (unique local).
LoopbackOrPrivate(host) ==
    CASE host.kind = "name" -> host.name = "localhost"
      [] host.kind = "ipv4" ->
            \/ host.o[1] \in {127, 10}
            \/ host.o[1] = 172 /\ host.o[2] \in 16..31
            \/ host.o[1] = 192 /\ host.o[2] = 168
            \/ host.o[1] = 169 /\ host.o[2] = 254
            \/ host.o = <<0, 0, 0, 0>>
      [] OTHER ->
            \/ host.isLoopback
            \/ host.h1 \in 65152..65215
            \/ host.h1 \in 64512..65023

\* C10: insertInlineImage rejects, before any request is built or submitted,
\* every imageUrl whose scheme is not http or https or whose host is a
\* loopback or private-network target; no documents.batchUpdate call is made
\* for such a URL.
C10_RejectsPrivateTargets ==
    (Done("insertImageFromUrl") /\ call.url.valid
     /\ (call.url.scheme \notin {"http", "https"} \/ LoopbackOrPrivate(call.url.host)))
        => (result.status = "threw" /\ netLog = <<>>)

-----------------------------------------------------------------------------
\* C11: for every non-empty batch, executeBatchUpdate makes exactly one
\* documents.batchUpdate call, carrying the whole batch, and then reaches
\* exactly one of two outcomes: the response is returned when the call
\* answered, one error is thrown when the call failed.  The call is never
\* made a second time and success is never reported after a failed call.
C11_OneCallOneOutcome ==
    (Done("executeBatchUpdate") /\ Len(call.requests) > 0)
        => /\ netLog = <<BatchCall(call.requests)>>
           /\ result.status \in {"returned", "threw"}
           /\ (remote.batch = ApiOk) =>
                (result.status = "returned" /\ result.value = ResponseData)
           /\ (remote.batch # ApiOk) =>
                (result.status = "threw" /\ result.error # NoError)

C11_Witness ==
    /\ Done("executeBatchUpdate")
    /\ Len(call.requests) = 2
    /\ remote.batch = ApiError(500)
    /\ result.status = "threw"
    /\ Len(netLog) = 1

\* C12: executeBatchUpdate called with an empty request list is a no-op: it
\* makes no network call, throws no error and returns an empty success
\* result, whatever the remote would have answered.
C12_EmptyBatchIsNoOp ==
    (Done("executeBatchUpdate") /\ Len(call.requests) = 0)
        => /\ netLog = <<>>
           /\ result.status = "returned"
           /\ result.value = EmptyResponse

C12_Witness ==
    /\ Done("executeBatchUpdate")
    /\ call.requests = <<>>
    /\ remote.batch = ApiError(403)
    /\ result.status = "returned"
    /\ netLog = <<>>


-----------------------------------------------------------------------------
\* The tools of the server that work on a document.
PublicTools ==
    {"applyTextStyle", "applyParagraphStyle", "formatMatchingText", "getTableCell",
     "updateTableCell", "listTables", "insertText", "deleteRange",
     "applyTableCellStyle", "insertTableRow", "deleteTableRow", "insertTableColumn",
     "deleteTableColumn", "insertImageFromUrl"}
ToolDone == pc = "done" /\ call.tool \in PublicTools

\* The documents.get calls of the call, in order.
GetCalls == SelectSeq(netLog, LAMBDA c : c.api = "documents.get")

\* No fetch comes after a submission.
FetchesBeforeSubmission ==
    \A i \in 1..Len(netLog), j \in 1..Len(netLog) :
        (netLog[i].api = "documents.get" /\ netLog[j].api = "documents.batchUpdate")
            => i < j

\* C13, as stated: every public document operation performs at most one
\* document fetch and at most one batch submission, the fetch before the
\* submission.
C13_OneFetchOneSubmission ==
    ToolDone => /\ Len(GetCalls) <= 1
                /\ Len(BatchCalls) <= 1
                /\ FetchesBeforeSubmission

\* applyParagraphStyle with a text target resolves the text with
\* findTextRange and the paragraph with getParagraphRange, each of which
\* fetches the document.
FetchLimit ==
    IF call.tool = "applyParagraphStyle" /\ call.target.kind = "text" THEN 2 ELSE 1

\* C13, amended: every public document operation performs at most one
\* document fetch -- applyParagraphStyle with a text target at most two --
\* and at most one batch submission, every fetch before the submission.
C13_FetchesThenOneSubmission ==
    ToolDone => /\ Len(GetCalls) <= FetchLimit
                /\ Len(BatchCalls) <= 1
                /\ FetchesBeforeSubmission

C13_Witness ==
    /\ Done("applyParagraphStyle")
    /\ call.target.kind = "text"
    /\ result.status = "returned"
    /\ Len(netLog) = 3
    /\ netLog[1] = GetCall /\ netLog[2] = GetCall
    /\ netLog[3].api = "documents.batchUpdate"


-----------------------------------------------------------------------------
\* The ranges of the Paragraph elements of a document, at every depth.
CellsOfTable(element) ==
    UNION {{element.tableRows[r].tableCells[c] :
                c \in 1..Len(element.tableRows[r].tableCells)} :
           r \in 1..Len(element.tableRows)}

RECURSIVE ParagraphsOf(_)
ParagraphsOf(content) ==
    UNION {IF content[i].tag = "paragraph"
           THEN {FoundRange(content[i].startIndex, content[i].endIndex)}
           ELSE UNION {ParagraphsOf(cell.content) : cell \in CellsOfTable(content[i])} :
           i \in 1..Len(content)}

\* The index getParagraphRange was asked about.
AskedIndex ==
    IF call.target.kind = "index" THEN call.target.indexWithinParagraph
    ELSE trace.range.startIndex

ParagraphsHolding(I) ==
    {p \in ParagraphsOf(doc.content) : p.startIndex <= I /\ I < p.endIndex}

\* C14: getParagraphRange(I) returns exactly the [startIndex, endIndex) of
\* the Paragraph element that contains I (startIndex <= I < endIndex), also
\* when that paragraph lies in a cell of a table (nested tables included),
\* and returns null when no Paragraph contains I; the range of a table, of
\* the section break or of any other element is never returned.
C14_ParagraphContainingIndex ==
    (Done("applyParagraphStyle") /\ trace.paragraphAsked)
        => IF ParagraphsHolding(AskedIndex) = {}
           THEN ~trace.paragraph.found
           ELSE ParagraphsHolding(AskedIndex) = {trace.paragraph}

\* The paragraph of the nested table of a cell is found for a text inside it.
C14_Witness ==
    /\ Done("applyParagraphStyle")
    /\ trace.paragraphAsked
    /\ call.target.kind = "text"
    /\ trace.paragraph.found
    /\ AskedIndex = trace.paragraph.startIndex
    /\ \E i \in 1..Len(doc.content) :
          /\ doc.content[i].tag = "table"
          /\ doc.content[i].startIndex + 6 < trace.paragraph.startIndex
          /\ trace.paragraph.endIndex < doc.content[i].endIndex


-----------------------------------------------------------------------------
\* A call of one of the three tools that take an explicit range.
RangeCall ==
    /\ pc = "done"
    /\ call.tool \in {"applyTextStyle", "applyParagraphStyle", "deleteRange"}
    /\ call.target.kind = "range"

RangeIsValid == call.target.endIndex > call.target.startIndex /\ call.target.startIndex >= 1

\* The range of the call as a request carries it.
RangeOfCall == [startIndex |-> call.target.startIndex, endIndex |-> call.target.endIndex]

\* C15: for an explicit-range target, applyTextStyle, applyParagraphStyle
\* and deleteRange never submit a request whose range has endIndex <=
\* startIndex or startIndex < 1: such a call ends in an error without any
\* network call.  An accepted explicit range reaches the one submitted
\* request unchanged.  validateRange throws for exactly the same ranges.
C15_ExplicitRangeCheckedAndKept ==
    /\ RangeCall =>
          /\ \A i \in 1..Len(netLog) :
                \A k \in 1..Len(netLog[i].requests) :
                    /\ netLog[i].requests[k].range.startIndex >= 1
                    /\ netLog[i].requests[k].range.endIndex
                          > netLog[i].requests[k].range.startIndex
          /\ ~RangeIsValid => (result.status = "threw" /\ netLog = <<>>)
          /\ Accepted =>
                /\ Len(netLog) = 1
                /\ netLog[1].api = "documents.batchUpdate"
                /\ Len(netLog[1].requests) = 1
                /\ netLog[1].requests[1].range = RangeOfCall
    /\ Done("validateRange") => ((result.status = "threw") <=> ~RangeIsValid)

C15_Witness ==
    /\ Done("deleteRange")
    /\ call.target = RangeTarget(2, 3)
    /\ result.status = "returned"
    /\ netLog = <<BatchCall(<<DeleteContentRange(2, 3)>>)>>


-----------------------------------------------------------------------------
\* A colour string as the spec admits it: three or six hexadecimal digits
\* after an optional "#".
HexDigits ==
    {"0", "1", "2", "3", "4", "5", "6", "7", "8", "9",
     "a", "b", "c", "d", "e", "f", "A", "B", "C", "D", "E", "F"}
ParsableColour(c) ==
    \/ Len(c) \in {3, 6} /\ \A i \in 1..Len(c) : c[i] \in HexDigits
    \/ Len(c) \in {4, 7} /\ c[1] = "#" /\ \A i \in 2..Len(c) : c[i] \in HexDigits

\* The colours a style intent carries.
ColoursOf(style) ==
    {style[p] : p \in DOMAIN style \cap {"foregroundColor", "backgroundColor"}}
        \cup {style[p].color : p \in DOMAIN style \cap BorderProps}

StyleCall ==
    /\ pc = "done"
    /\ call.tool \in {"applyTextStyle", "formatMatchingText", "applyTableCellStyle"}

\* C16: a style intent that carries an unparsable colour (text foreground
\* or background, cell background, border colour) fails with a validation
\* error before any network call of the operation: neither a document fetch
\* nor a batch submission is made.
C16_BadColourFailsBeforeNetwork ==
    (StyleCall /\ \E c \in ColoursOf(call.style) : ~ParsableColour(c))
        => /\ result.status = "threw"
           /\ result.error.type \in {"ValidationError", "UserError"}
           /\ netLog = <<>>

\* A text target, which would need a fetch first, with an unparsable colour.
C16_Witness ==
    /\ Done("applyTextStyle")
    /\ call.target.kind = "text"
    /\ call.style = BadColourStyle
    /\ doc.hasContent
    /\ result.status = "threw"
    /\ netLog = <<>>


-----------------------------------------------------------------------------
\* A tool call whose batch submission was made and failed.
SubmissionFailed ==
    /\ ToolDone
    /\ netLog # <<>>
    /\ netLog[Len(netLog)].api = "documents.batchUpdate"
    /\ remote.batch # ApiOk

\* The messages executeBatchUpdate gives its UserErrors.
GatewayMessages ==
    {"Invalid request sent to Google Docs API", "Document not found",
     "Permission denied for document"}

\* The error reached the caller as the gateway threw it.
NotRewrapped == result.error.cause = "" /\ result.error.code = 0

\* C17, as stated: a failed batch submission is classified once in
\* executeBatchUpdate (404 not found, 403 permission denied, 5xx remote
\* service error) and reaches the tool's caller with that kind; no layer
\* above re-wraps it, so the 5xx kind stays apart from the terminal kinds.
C17_ClassifiedOnceAndKept ==
    SubmissionFailed
        => /\ result.status = "threw"
           /\ NotRewrapped
           /\ remote.batch.code = 404 => result.error.msg = "Document not found"
           /\ remote.batch.code = 403
                => result.error.msg = "Permission denied for document"
           /\ remote.batch.code >= 500
                => /\ result.error.type # "UserError"
                   /\ result.error.msg = "Google API Error"

\* C17, amended: executeBatchUpdate translates 404, 403 and 400 "Invalid
\* requests" to a UserError that reaches the tool's caller unchanged; any
\* other failure (5xx) it throws as a generic Error, which the tool's catch
\* wraps in a new UserError "Failed to ..." that carries the gateway's
\* message.  At the caller every kind is a UserError.
C17_TranslatedThenWrapped ==
    SubmissionFailed
        => /\ result.status = "threw"
           /\ result.error.type = "UserError"
           /\ remote.batch.code = 404
                => result.error.msg = "Document not found" /\ NotRewrapped
           /\ remote.batch.code = 403
                => result.error.msg = "Permission denied for document" /\ NotRewrapped
           /\ remote.batch = ApiInvalidRequests
                => /\ result.error.msg = "Invalid request sent to Google Docs API"
                   /\ NotRewrapped
           /\ remote.batch.code >= 500
                => /\ result.error.msg \notin GatewayMessages
                   /\ result.error.cause = "Google API Error"

\* A 5xx answer to the submission of applyTextStyle, wrapped by the tool.
C17_Witness ==
    /\ Done("applyTextStyle")
    /\ SubmissionFailed
    /\ remote.batch = ApiError(500)
    /\ result.error.type = "UserError"
    /\ result.error.cause = "Google API Error"

\* A 404 answer to a submission, handed on as the gateway threw it.
C17_WitnessTerminal ==
    /\ SubmissionFailed
    /\ remote.batch = ApiError(404)
    /\ result.error = MkError("UserError", "Document not found", "", 0)


-----------------------------------------------------------------------------
\* The answer of the remote to the i-th call of the network log: the first
\* fetch, the second fetch or the submission.
FetchesBefore(i) == Len(SelectSeq(SubSeq(netLog, 1, i - 1), LAMBDA c : c.api = "documents.get"))
AnswerTo(i) ==
    IF netLog[i].api = "documents.batchUpdate" THEN remote.batch
    ELSE IF FetchesBefore(i) = 0 THEN remote.get
    ELSE remote.get2

\* A fetch or a submission of the call failed.
RemoteCallFailed == \E i \in 1..Len(netLog) : AnswerTo(i) # ApiOk

TypedErrors == {"UserError", "NotImplementedError"}

\* C18: every failure of a fetch or of a batch submission inside a tool
\* reaches the tool's caller as a typed error (UserError or
\* NotImplementedError); the client library's raw error is never passed on
\* unwrapped, and no such failure ends in a success result.  handleToolError
\* likewise throws a typed error for whatever it is given.
C18_RemoteFailuresAreTyped ==
    /\ (ToolDone /\ RemoteCallFailed)
          => /\ result.status = "threw"
             /\ result.error.type \in TypedErrors
    /\ Done("handleToolError")
          => /\ result.status = "threw"
             /\ result.error.type \in TypedErrors
             /\ call.thrown.type \in TypedErrors => result.error = call.thrown

\* listTables, whose helper findTables rethrows the raw error of the fetch.
C18_Witness ==
    /\ Done("listTables")
    /\ remote.get = ApiError(500)
    /\ netLog = <<GetCall>>
    /\ result.status = "threw"
    /\ result.error.type = "UserError"
    /\ result.error.cause = "api"


-----------------------------------------------------------------------------
\* A search of findTextRange that ran on the fetched text.
SearchDone == pc = "done" /\ trace.op = "findTextRange"

\* C19, as stated: the search resumes past the previous hit, so the hits
\* findTextRange counts never overlap: each counted hit starts at or after
\* the end of the one before it.
C19_CountedHitsDoNotOverlap ==
    SearchDone
        => \A j \in 1..(Len(trace.counted) - 1) :
               trace.counted[j + 1] >= trace.counted[j] + Len(call.target.textToFind)

\* C19, amended: the search resumes one character after the start of the
\* previous hit, so each counted hit is the first occurrence that starts
\* after the start of the one before it; counted hits strictly increase in
\* start offset and may overlap.  Every occurrence, overlapping ones
\* included, is counted until the instance asked for is reached.
C19_CountedHitsAdvanceByStart ==
    SearchDone
        => /\ Len(trace.counted)
                = IF Cardinality(Occurrences(trace.fullText, call.target.textToFind))
                        < call.target.matchInstance
                  THEN Cardinality(Occurrences(trace.fullText, call.target.textToFind))
                  ELSE call.target.matchInstance
           /\ Len(trace.counted) >= 1
                => trace.counted[1] = IndexOf_fromStart(trace.fullText, call.target.textToFind, 0)
           /\ \A j \in 1..(Len(trace.counted) - 1) :
                 /\ trace.counted[j + 1] > trace.counted[j]
                 /\ OccursAt(trace.fullText, call.target.textToFind, trace.counted[j + 1])
                 /\ \A i \in (trace.counted[j] + 1)..(trace.counted[j + 1] - 1) :
                        ~OccursAt(trace.fullText, call.target.textToFind, i)

\* "aa" counted twice in "aaa": the second hit starts inside the first.
C19_Witness ==
    /\ SearchDone
    /\ call.target.textToFind = <<"a", "a">>
    /\ call.target.matchInstance = 2
    /\ trace.counted = <<0, 1>>
    /\ trace.range.found


-----------------------------------------------------------------------------
\* The segment that holds the first character of the hit at offset h, and
\* the one that holds its last character.
StartSegment(h) ==
    CHOOSE j \in 1..Len(trace.segments) :
        /\ ReconStart(trace.segments, j) <= h
        /\ h < ReconStart(trace.segments, j + 1)
EndSegment(h) == StartSegment(h + Len(call.target.textToFind) - 1)

\* The hit at offset h takes its characters from two segments with content
\* that is not text between them.
StraddlesGap(h) ==
    /\ Len(call.target.textToFind) >= 2
    /\ StartSegment(h) < EndSegment(h)
    /\ \E j \in StartSegment(h)..(EndSegment(h) - 1) :
           trace.segments[j].end < trace.segments[j + 1].start

\* The hit the search stopped at is the instance asked for.
LastCounted == trace.counted[Len(trace.counted)]
AskedHitCounted == SearchDone /\ Len(trace.counted) = call.target.matchInstance

\* C20, as stated: a hit whose characters come from two segments separated
\* by content that is not text is a failed mapping: no range is returned
\* for it, it is not counted toward the instance, and the search goes on
\* just past it.
C20_StraddlingHitIsSkipped ==
    SearchDone
        => \A j \in 1..Len(trace.counted) : ~StraddlesGap(trace.counted[j])

\* C20, amended: such a hit is mapped like any other: its start through the
\* segment that holds its first character, its end through the segment that
\* holds its last, so the range returned spans the content between them; it
\* is counted toward the instance, and no mapping fails.
C20_StraddlingHitIsMapped ==
    /\ SearchDone => trace.failed = <<>>
    /\ (AskedHitCounted /\ StraddlesGap(LastCounted))
          => /\ trace.range.found
             /\ trace.range.startIndex
                  = trace.segments[StartSegment(LastCounted)].start
                      + (LastCounted - ReconStart(trace.segments, StartSegment(LastCounted)))
             /\ trace.range.endIndex
                  = trace.segments[EndSegment(LastCounted)].start
                      + (LastCounted + Len(call.target.textToFind)
                           - ReconStart(trace.segments, EndSegment(LastCounted)))
             /\ trace.range.endIndex - trace.range.startIndex
                  > Len(call.target.textToFind)
             /\ (call.tool = "formatMatchingText" /\ remote.batch = ApiOk)
                  => result.status = "returned"

\* "ab" found once in a paragraph that reads "a", inline object, "b".
C20_Witness ==
    /\ AskedHitCounted
    /\ call.tool = "formatMatchingText"
    /\ call.target.textToFind = <<"a", "b">>
    /\ call.target.matchInstance = 1
    /\ Len(trace.segments) = 2
    /\ trace.segments[1].text = <<"a">>
    /\ StraddlesGap(LastCounted)
    /\ trace.range = FoundRange(1, 4)
    /\ result.status = "returned"


-----------------------------------------------------------------------------
\* The text runs of a tree, as a set: each with the index it starts at.
RECURSIVE RunsOf(_)
RunsOf(content) ==
    UNION {IF content[i].tag = "paragraph"
           THEN {[start |-> content[i].elements[k].startIndex,
                  text |-> content[i].elements[k].content] :
                     k \in {n \in 1..Len(content[i].elements) :
                                content[i].elements[n].hasTextRun}}
           ELSE IF content[i].tag = "table"
           THEN UNION {RunsOf(cell.content) : cell \in CellsOfTable(content[i])}
           ELSE {} :
           i \in 1..Len(content)}

\* The text of a set of runs, read in the order of their indices.
RECURSIVE TextInOrder(_)
TextInOrder(runs) ==
    IF runs = {} THEN <<>>
    ELSE LET first == CHOOSE r \in runs : \A q \in runs : r.start <= q.start
         IN first.text \o TextInOrder(runs \ {first})

DocumentOrderText == TextInOrder(RunsOf(doc.content))

\* C21: occurrences are counted from 1 over the text of the depth-first,
\* left-to-right walk of the tree, which is the text in document order: the
\* text of table cells (rows in order, cells left to right, nested tables
\* included) stands between that of the paragraphs around the table, and
\* the j-th hit counted is the j-th occurrence in that text.
C21_CountedInDocumentOrder ==
    (TextCall /\ doc.hasContent)
        => /\ trace.fullText = DocumentOrderText
           /\ \A j \in 1..Len(trace.counted) :
                  trace.counted[j]
                      = KthOccurrence(DocumentOrderText, call.target.textToFind, j)
           /\ trace.range.found => Len(trace.counted) = call.target.matchInstance

\* "a" before a table, in its first cell, in a table nested in its second
\* cell and after it: the third occurrence is the nested one.
C21_Witness ==
    /\ TextCall
    /\ call.target.textToFind = <<"a">>
    /\ call.target.matchInstance = 3
    /\ Cardinality(Occurrences(DocumentOrderText, <<"a">>)) = 4
    /\ \E i \in 1..Len(doc.content) : doc.content[i].tag = "table"
    /\ trace.range = FoundRange(12, 13)


-----------------------------------------------------------------------------
\* The segments of the fetched tree as the walk collected them, before the
\* sort.
CollectedSegments ==
    CollectTextFromContent(doc.content, [fullText |-> <<>>, segments |-> <<>>]).segments

StrictlyIncreasing(segments) ==
    \A i \in 1..(Len(segments) - 1) :
        /\ segments[i].start < segments[i + 1].start
        /\ segments[i].end <= segments[i + 1].start

\* findTextRange ran on a fetched tree whose segments are out of order or
\* overlap.
SearchedDisorderedTree ==
    /\ Done("findTextRange")
    /\ remote.get = ApiOk
    /\ doc.hasContent
    /\ ~StrictlyIncreasing(CollectedSegments)

\* C22, as stated: when the segments collected from a fetched tree are not
\* strictly increasing and non-overlapping, findTextRange ends in an error
\* and returns no range.
C22_DisorderIsAFailure ==
    SearchedDisorderedTree => result.status = "threw"

\* C22, amended: findTextRange does not check the order of the segments; it
\* sorts them by start and goes on.  On such a tree it ends without an
\* error, and returns a range whenever the text occurs often enough in the
\* reconstructed text.
C22_DisorderIsSortedAndUsed ==
    SearchedDisorderedTree
        => /\ result.status = "returned"
           /\ netLog = <<GetCall>>
           /\ result.value.found
                <=> Cardinality(Occurrences(Collected(doc).fullText, call.target.textToFind))
                        >= call.target.matchInstance

\* Second paragraph first in the tree: "a" is found, and mapped through the
\* segment of the other paragraph.
C22_Witness ==
    /\ SearchedDisorderedTree
    /\ CollectedSegments[1].start = 4
    /\ CollectedSegments[1].text = <<"a", NL>>
    /\ CollectedSegments[2].text = <<"b", NL>>
    /\ call.target = TextTarget(<<"a">>, 1)
    /\ result.status = "returned"
    /\ result.value = FoundRange(1, 2)


-----------------------------------------------------------------------------
\* The tools that change the rows, the columns or the cell style of a table.
RowTools == {"insertTableRow", "deleteTableRow", "applyTableCellStyle"}
ColumnTools == {"insertTableColumn", "deleteTableColumn", "applyTableCellStyle"}

\* Such a tool was called on a table the remote holds, with a row or column
\* index the table does not have.
IndexBeyondTable ==
    /\ pc = "done"
    /\ call.tool \in RowTools \cup ColumnTools
    /\ Accepted
    /\ AddressedTable # 0
    /\ \/ call.tool \in RowTools /\ call.rowIndex >= RowCount
       \/ call.tool \in ColumnTools /\ call.columnIndex >= ColumnCount

\* The cell location of the request that was submitted.
SubmittedLocation ==
    IF call.tool = "applyTableCellStyle"
    THEN BatchCalls[1].requests[1].tableRange.tableCellLocation
    ELSE BatchCalls[1].requests[1].tableCellLocation

\* C23, as stated: insertTableRow, deleteTableRow, insertTableColumn,
\* deleteTableColumn and applyTableCellStyle called with a row or column
\* index >= the row or column count of the addressed table report an
\* out-of-bounds error from local validation and submit no request.
C23_OutOfBoundsNotSubmitted ==
    IndexBeyondTable
        => /\ result.status = "threw"
           /\ BatchCalls = <<>>

\* C23, amended: these five tools do not fetch the table and make no bounds
\* check: the request is submitted with the row and column index as given,
\* and the call fails only if the remote rejects the submission.
C23_OutOfBoundsIsSubmitted ==
    IndexBeyondTable
        => /\ netLog = BatchCalls
           /\ Len(BatchCalls) = 1
           /\ SubmittedLocation.tableStartLocation.index = call.tableIndex
           /\ SubmittedLocation.rowIndex = call.rowIndex
           /\ SubmittedLocation.columnIndex = call.columnIndex
           /\ result.status = "threw" <=> remote.batch # ApiOk

\* Row 2 of a table of two rows is the third; deleteTableRow submits it.
C23_Witness ==
    /\ IndexBeyondTable
    /\ call.tool = "deleteTableRow"
    /\ RowCount = 2
    /\ call.rowIndex = 2
    /\ remote.batch = ApiOk
    /\ result.status = "returned"
    /\ Len(BatchCalls) = 1


-----------------------------------------------------------------------------
\* The six digits a colour string stands for.
SixDigits(c) ==
    LET body == IF Head(c) = "#" THEN Tail(c) ELSE c
    IN IF Len(body) = 3
       THEN <<body[1], body[1], body[2], body[2], body[3], body[3]>>
       ELSE body

\* The 8-bit channel two hexadecimal digits stand for.
Channel(hi, lo) == 16 * HexDigitValue(hi) + HexDigitValue(lo)

\* The colour is held as its three 8-bit channels, each standing for the
\* channel divided by 255.
ColourOfDigits(d) ==
    [isNull |-> FALSE, red |-> Channel(d[1], d[2]), green |-> Channel(d[3], d[4]),
     blue |-> Channel(d[5], d[6])]

\* C24: hexToRgbColor returns null for every string that is not a colour of
\* three or six hexadecimal digits after an optional "#", and for every
\* such colour returns red, green and blue equal to the 8-bit channels over
\* 255, "abc" giving the triple of "aabbcc".
C24_HexToRgbColor ==
    Done("hexToRgbColor")
        => /\ ~ParsableColour(call.text) => result.value.isNull
           /\ ParsableColour(call.text)
                => /\ result.value = ColourOfDigits(SixDigits(call.text))
                   /\ result.value.red \in 0..255
                   /\ result.value.green \in 0..255
                   /\ result.value.blue \in 0..255

\* The part of C24 that holds: every colour the schema accepts is turned
\* into its three channels, and the empty string, strings of another
\* length and strings that open with no digit give null.
C24_AcceptedColoursConverted ==
    Done("hexToRgbColor")
        => /\ ParsableColour(call.text)
                => result.value = ColourOfDigits(SixDigits(call.text))
           /\ call.text = <<"a", "b", "c">>
                => result.value = [isNull |-> FALSE, red |-> 170, green |-> 187,
                                   blue |-> 204]
           /\ call.text = <<"#", "F", "F", "8", "0", "0", "0">>
                => result.value = [isNull |-> FALSE, red |-> 255, green |-> 128,
                                   blue |-> 0]
           /\ call.text \in {<<>>, <<"#">>, <<"a", "b">>, <<"r", "e", "d">>,
                             <<"g", "1", "2">>, <<"a", "b", "c", "d">>}
                => result.value.isNull

\* "12345g" is no colour, and hexToRgbColor gives the colour of 0x012345.
C24_NonColourConverted ==
    /\ Done("hexToRgbColor")
    /\ call.text = <<"1", "2", "3", "4", "5", "g">>
    /\ result.value = [isNull |-> FALSE, red |-> 1, green |-> 35, blue |-> 69]


-----------------------------------------------------------------------------
\* The initializations whose authorize() call has not ended.
InFlight == {p \in Promises : clientManager.promise[p] = "pending"}

\* At most one initialization is in flight, whoever waits for a pending
\* initialization waits for the promise the manager holds, and once the
\* clients are set nothing is pending.
OneInFlight ==
    /\ Cardinality(InFlight) <= 1
    /\ \A c \in Callers :
          (callers[c].at \in {"awaitingOwn", "awaitingShared"}
              /\ callers[c].promise \in InFlight)
            => callers[c].promise = clientManager.initializationPromise
    /\ clientManager.clients # Null
          => (InFlight = {} /\ clientManager.initializationPromise = Null)

\* A call made once the clients are set returns them at once, and makes no
\* authorize() call.
CachedClientsReturned ==
    \A c \in Callers :
        (clientManager.clients # Null /\ callers[c].at = "outside"
            /\ callers'[c].at # "outside")
          => /\ callers'[c] = Received(clientManager.clients)
             /\ clientManager'.authorizeCalls = clientManager.authorizeCalls

\* C25: for any interleaving of concurrent initialize() calls at most one
\* performInitialization is in flight at a time: a call made while an
\* initialization is pending waits for that same promise, and once it has
\* succeeded every caller receives the same client set with no further
\* authorization.  reset() may come between initializations.
C25_OneInitializationInFlight ==
    /\ [](~clientManager.resetWhilePending => OneInFlight)
    /\ [][~clientManager.resetWhilePending => CachedClientsReturned]_vars

\* One caller started the initialization, a second waits for its promise,
\* and a third came after it succeeded: one authorize() call, one client set.
C25_Witness ==
    /\ ~clientManager.resetWhilePending
    /\ clientManager.authorizeCalls = 1
    /\ clientManager.clients = 1
    /\ callers[1] = Received(1)
    /\ callers[2] = AwaitingShared(1)
    /\ callers[3] = Received(1)

\* With reset() called while an initialization is pending the same does not
\* hold: the next call starts a second authorization beside the first.
OneInFlightAcrossReset == OneInFlight


-----------------------------------------------------------------------------
\* The module variables are all null or all made from one authorize() call.
AllOrNothing ==
    \A f \in ClientFields :
        googleClients.fields[f] = googleClients.fields["authClient"]

\* After a successful initialization: nothing changes the clients, no
\* authorize() call is made, and a call that comes returns the cached
\* instances at once.
InitializedStaysInitialized ==
    AllClientsSet(googleClients.fields)
        => /\ googleClients' = googleClients
           /\ \A c \in Callers :
                 (clientCalls[c].at = "outside" /\ clientCalls'[c].at # "outside")
                    => /\ clientCalls'[c].at = "returned"
                       /\ clientCalls'[c].got
                            = HandedOut(clientCalls'[c].fn, googleClients.fields)

\* The end of authorize(): on success the call returns the clients made
\* from it; on failure every module variable is null and the call throws.
AuthorizeOutcome ==
    \A c \in Callers :
        clientCalls[c].at = "authorizing"
          => /\ clientCalls'[c].at = "returned"
                  => /\ googleClients'.fields
                          = [f \in ClientFields |-> clientCalls[c].authorize]
                     /\ clientCalls'[c].got
                          = HandedOut(clientCalls[c].fn, googleClients'.fields)
             /\ clientCalls'[c].at = "threw"
                  => googleClients'.fields = [f \in ClientFields |-> Null]
             /\ clientCalls'[c].at \in {"authorizing", "returned", "threw"}

\* A call that finds no clients calls authorize().
UninitializedAuthorizes ==
    \A c \in Callers :
        (googleClients.fields["authClient"] = Null
            /\ clientCalls[c].at = "outside" /\ clientCalls'[c].at # "outside")
          => /\ clientCalls'[c].at = "authorizing"
             /\ googleClients'.authorizeCalls = googleClients.authorizeCalls + 1

\* C30: for any sequence of initializeGoogleClient / getDocsClient /
\* getDriveClient calls: after one initialization has succeeded every later
\* call returns the same client instances and authorize() is not invoked
\* again; after a failed authorize() all cached clients and the auth client
\* are null, the call throws, and the next call attempts authorization
\* again.  The calls of a sequence do not overlap.
C30_InitializedOnceRetriedAfterFailure ==
    /\ [](~googleClients.overlapped => AllOrNothing)
    /\ [][~googleClients.overlapped
            => (InitializedStaysInitialized /\ AuthorizeOutcome
                    /\ UninitializedAuthorizes)]_vars

\* The first authorize() failed, the second call authorized again, and a
\* third call, of getDocsClient, got the docs client of the second.
C30_Witness ==
    /\ ~googleClients.overlapped
    /\ googleClients.authorizeCalls = 2
    /\ googleClients.fields = [f \in ClientFields |-> 2]
    /\ clientCalls[1] = Throwing("initializeGoogleClient")
    /\ clientCalls[2].at = "returned"
    /\ clientCalls[2].fn = "initializeGoogleClient"
    /\ clientCalls[3] = Returning("getDocsClient", googleClients.fields)

\* With calls that overlap the same does not hold: each of two calls that
\* find no auth client calls authorize(), and the failure of one clears
\* the clients the other has set.
InitializedOnceWithOverlap ==
    [][InitializedStaysInitialized]_vars


-----------------------------------------------------------------------------
InsertRequests == SelectSeq(SubmittedRequests, LAMBDA r : r.kind = "insertText")

\* The content range of the addressed cell, [startIndex + 1, endIndex - 1),
\* holds no index.
ContentRangeEmpty == ~(AddressedCell.endIndex - 1 > AddressedCell.startIndex + 1)

\* C29: updateTableCellContent omits the delete request when the content
\* range of the cell is empty and omits the insert request when newContent
\* is empty; when both are empty no documents.batchUpdate call is made and
\* the operation still reports success; the requests that are emitted keep
\* the order delete before insert.
C29_EmptyPartsOmitted ==
    UpdateReachedCell
        => /\ DeleteRequests = <<>> <=> ContentRangeEmpty
           /\ InsertRequests = <<>> <=> call.newContent = <<>>
           /\ Len(DeleteRequests) <= 1 /\ Len(InsertRequests) <= 1
           /\ SubmittedRequests = DeleteRequests \o InsertRequests
           /\ (ContentRangeEmpty /\ call.newContent = <<>>)
                => /\ netLog = <<GetCall>>
                   /\ result.status = "returned"
           /\ ~(ContentRangeEmpty /\ call.newContent = <<>>)
                => /\ Len(BatchCalls) = 1
                   /\ SubmittedRequests # <<>>

\* An empty cell is given empty content: one fetch, no submission, success.
C29_Witness ==
    /\ UpdateReachedCell
    /\ ContentRangeEmpty
    /\ call.newContent = <<>>
    /\ netLog = <<GetCall>>
    /\ result.status = "returned"


-----------------------------------------------------------------------------
\* The hit at offset h of the reconstructed text gets both of its indices.
HitIsMapped(segments, h, n) ==
    /\ MapHit(segments, h, h + n).startIndex # -1
    /\ MapHit(segments, h, h + n).endIndex # -1

\* C27: for a non-empty textToFind every hit found in the reconstructed
\* text is mapped to both a startIndex and an endIndex, the segments
\* covering every offset of that text; the retry after a failed mapping is
\* never taken and the range returned is that of the instance-th hit in
\* text order.
C27_EveryHitIsMapped ==
    /\ (TextCall /\ doc.hasContent /\ call.target.textToFind # <<>>)
          => /\ \A h \in OccurrencesInDoc :
                    HitIsMapped(trace.segments, h, Len(call.target.textToFind))
             /\ \A i \in 0..(Len(trace.fullText) - 1) :
                    \E j \in 1..Len(trace.segments) :
                        /\ ReconStart(trace.segments, j) <= i
                        /\ i < ReconStart(trace.segments, j + 1)
             /\ trace.failed = <<>>
             /\ trace.range.found
                  <=> Cardinality(OccurrencesInDoc) >= call.target.matchInstance
             /\ trace.range.found
                  => /\ Len(trace.counted) = call.target.matchInstance
                     /\ LastCounted = KthOccurrence(trace.fullText, call.target.textToFind,
                                                    call.target.matchInstance)
                     /\ trace.range.startIndex
                          = MapHit(trace.segments, LastCounted,
                                   LastCounted + Len(call.target.textToFind)).startIndex
                     /\ trace.range.startIndex >= 1
                     /\ trace.range.endIndex > trace.range.startIndex
    /\ (Done("findTextRange") /\ remote.get = ApiOk /\ doc.hasContent)
          => \A h \in Occurrences(Collected(doc).fullText, call.target.textToFind) :
                 HitIsMapped(Collected(doc).segments, h, Len(call.target.textToFind))

\* "b" in the first cell of a table and in the paragraph after the table:
\* both hits are counted and the second one is mapped.
C27_Witness ==
    /\ TextCall
    /\ call.tool = "formatMatchingText"
    /\ Len(trace.segments) = 5
    /\ call.target.textToFind = <<"b">>
    /\ call.target.matchInstance = 2
    /\ trace.counted = <<2, 7>>
    /\ trace.failed = <<>>
    /\ trace.range.found



-----------------------------------------------------------------------------
(* C26: the search loop terminates *)

\* A pass that neither returns nor stops moves the search cursor forward.
IterationAdvances ==
    (search.at = "loop" /\ search'.at = "loop")
        => /\ search'.searchStartIndex > search.searchStartIndex
           /\ search'.iterations = search.iterations + 1

\* The cursor never passes the end of the text, so it cannot advance for ever.
CursorWithinText == search.searchStartIndex <= Len(search.fullText)

\* A finished search holds what the loop, run as a whole, gives.
FinishedAsSearched ==
    SearchFinished =>
        search.range = SearchLoop(search.fullText, search.segments, search.textToFind,
                                  search.instance, 0, 0, <<>>, <<>>).range

\* C26: for every fetched document, every non-empty textToFind and every
\* instance >= 1, the search loop of findTextRange terminates, with a range
\* or with not-found: every pass either returns, stops, or strictly advances
\* the search cursor, which stays within the text.
C26_SearchLoopTerminates ==
    /\ [](CursorWithinText /\ FinishedAsSearched)
    /\ [][IterationAdvances]_vars
    /\ (search.at = "loop") ~> SearchFinished

\* A search that stopped with not-found after passes that advanced the cursor.
C26_Witness ==
    /\ search.at = "notFound"
    /\ search.textToFind # <<>> /\ search.instance >= 1
    /\ search.foundCount >= 1
    /\ search.searchStartIndex >= 2
    /\ search.iterations >= 3


-----------------------------------------------------------------------------
(* C28: applyParagraphStyle with a text target beside another caller's edit *)

\* The batchUpdate calls the stepwise call has made, and the range of the
\* paragraph style request it sent.
StylingBatchCalls == SelectSeq(styling.net, LAMBDA c : c.api = "documents.batchUpdate")
StylingSubmitted == styling.at \in {"submitted", "failed"} /\ StylingBatchCalls # <<>>
SubmittedParagraph == StylingBatchCalls[1].requests[1].range

\* The index in document d of the start of the k-th occurrence of t, -1
\* when d holds fewer than k occurrences.
OccurrenceStart(d, t, k) ==
    IF Cardinality(Occurrences(Collected(d).fullText, t)) < k THEN -1
    ELSE MappedRange(Collected(d).segments,
                     KthOccurrence(Collected(d).fullText, t, k),
                     KthOccurrence(Collected(d).fullText, t, k) + Len(t)).startIndex

\* Is range the range of a paragraph of d that holds index i?
IsParagraphHolding(d, range, i) ==
    /\ FoundRange(range.startIndex, range.endIndex) \in ParagraphsOf(d.content)
    /\ range.startIndex <= i
    /\ i < range.endIndex

\* The submitted range is that of the paragraph which, in the document as
\* the call last fetched it, holds the asked occurrence of the text.
SubmittedHoldsTextAsLastFetched ==
    /\ OccurrenceStart(styling.lastFetch, styling.textToFind, styling.matchInstance) # -1
    /\ IsParagraphHolding(styling.lastFetch, SubmittedParagraph,
                          OccurrenceStart(styling.lastFetch, styling.textToFind,
                                          styling.matchInstance))

\* C28 as stated: in applyParagraphStyle with a text target, the paragraph
\* range that is submitted is the range of the paragraph that contains the
\* found occurrence of the text in the document as last fetched by that
\* call, for every interleaving with another caller's edit of the same
\* document, an edit between the search and the paragraph lookup included.
C28_SubmittedParagraphHoldsText ==
    StylingSubmitted => SubmittedHoldsTextAsLastFetched

\* C28, amended: the paragraph range that is submitted is the range of the
\* paragraph that, in the document as last fetched by the call, holds the
\* start index which the call's search found in the document as it first
\* fetched it; it is the paragraph that holds the found occurrence when no
\* other caller's edit is applied between the search and the lookup.
C28_SubmittedParagraphHoldsSearchedIndex ==
    StylingSubmitted =>
        /\ styling.textRange.startIndex =
                OccurrenceStart(styling.firstFetch, styling.textToFind,
                                styling.matchInstance)
        /\ IsParagraphHolding(styling.lastFetch, SubmittedParagraph,
                              styling.textRange.startIndex)
        /\ ~styling.editedBetween => SubmittedHoldsTextAsLastFetched

\* A paragraph was put in front between the search and the lookup, and the
\* request went to a paragraph that does not hold the text.
C28_Witness ==
    /\ styling.at = "submitted"
    /\ StylingBatchCalls # <<>>
    /\ styling.editedBetween
    /\ styling.lastFetch # styling.firstFetch
    /\ ~SubmittedHoldsTextAsLastFetched

====
